---- MODULE Spec2Model ----
(***************************************************************************)
(* Beat Marker Pro: the audio analysis engine (class AudioAnalyzer).       *)
(*                                                                         *)
(* Number representation.  The engine computes on IEEE floats; the model   *)
(* computes on integers:                                                   *)
(*   - a detection signal, an ODF or a band series value v stands for the  *)
(*     real number v / Scale (fixed point, divisions round down);          *)
(*   - comparisons between reals are made exactly, by cross-multiplying;   *)
(*   - sensitivity is given in tenths, minInterval in milliseconds, a      *)
(*     weight in twentieths, a BPM in tenths, an event time in             *)
(*     milliseconds;                                                       *)
(*   - NaN (0/0) is the value NaN below.                                   *)
(* The FFT itself (_fft and the Hann window) is not computed: a channel    *)
(* holds one of a few test patterns scaled by an amplitude, and            *)
(* Spectrum gives the magnitude vector of a frame of it, sparsely, as a    *)
(* function from its non-zero bins to magnitudes.  Silence has the empty   *)
(* function: the transform of zeros is zero.                               *)
(***************************************************************************)
EXTENDS Integers, Sequences, FiniteSets, TLC

VARIABLES
    sampleRate,     \* this.sampleRate
    caller,         \* how the caller uses the instance: the rate left by
                    \* its earlier analysis, and the analyze() its progress
                    \* callback starts on the same instance
    audioBuffer,    \* analyze(): the audioBuffer argument
    options,        \* analyze(): the options argument, defaults filled in
    hasCallback,    \* analyze(): progressCallback is not null
    hasToken,       \* analyze(): cancelToken is not null
    cancelled,      \* cancelToken.cancelled
    pc,             \* position of the running analyze()
    stftFrame,      \* _computeSTFT(): the loop variable frame
    mono,           \* analyze(): const mono
    stftLocal,      \* _computeSTFT(): the local array spectrogram
    spectrogram,    \* analyze(): const spectrogram, what _computeSTFT returned
    bandEnergies,   \* analyze(): const bandEnergies
    bandFlux,       \* analyze(): const bandFlux
    results,        \* analyze(): const results
    ret,            \* what analyze() resolved to
    progress,       \* the percent values handed to progressCallback so far
    cancelledAt,    \* the percent of the callback in which the flag was set
    signal,         \* _detectOnsets(signal, ..) / _estimateBPM(energySignal)
    detOpts,        \* _detectOnsets(): the options argument
    scanI,          \* _detectOnsets(): the loop variable i
    onsets,         \* _detectOnsets(): the local array onsets
    lastStep,       \* _detectOnsets(): what the last loop iteration did
    bpm,            \* what _estimateBPM returned
    state,          \* the panel controller's var state
    btn,            \* the disabled flags of the panel's buttons
    tokens,         \* the cancelled flag of every cancel token created
    jobs,           \* the file analyses started by analyzeAudioFile
    call,           \* the evalScript call in flight, with the variables
                    \* its promise callbacks close over
    seq,            \* the host's app.project.activeSequence
    markers,        \* the host's seq.markers
    history,        \* whether an evalScript call was rejected, and the
                    \* number of the last placement that built a batch
    opsLeft         \* the number of user operations still to come

analyzerVars ==
    << sampleRate, caller, audioBuffer, options, hasCallback, hasToken,
       cancelled, pc, stftFrame, mono, stftLocal, spectrogram, bandEnergies,
       bandFlux, results, ret, progress, cancelledAt, signal, detOpts,
       scanI, onsets, lastStep, bpm >>

panelVars ==
    << state, btn, tokens, jobs, call, seq, markers, history, opsLeft >>

vars == << analyzerVars, panelVars >>

----------------------------------------------------------------------------
(* Program constants *)

DefaultSampleRate == 44100
fftSize == 2048
hopSize == 512
CancelEvery == 200
ProgressEvery == 500
EpsPerMille == 1
MinTempo == 50
MaxTempo == 200
FoldLow == 60
FoldHigh == 200

bands ==
    << [name |-> "subBass",    low |-> 20,    high |-> 80],
       [name |-> "bass",       low |-> 80,    high |-> 300],
       [name |-> "lowMid",     low |-> 300,   high |-> 2000],
       [name |-> "highMid",    low |-> 2000,  high |-> 6000],
       [name |-> "presence",   low |-> 6000,  high |-> 12000],
       [name |-> "brilliance", low |-> 12000, high |-> 20000] >>

BandNames == { bands[k].name : k \in 1..Len(bands) }
BandOf(n) == CHOOSE k \in 1..Len(bands) : bands[k].name = n

Channels == <<"kick", "snare", "hihat", "bass", "melody", "vocal">>
ChannelSet == { Channels[k] : k \in 1..Len(Channels) }

(* Model bounds *)

Scale == 1000       \* fixed-point resolution: the integer v is v / Scale
MaxLen == 8         \* length of the signals given to _detectOnsets
MaxBpmLen == 5      \* longest signal given to _estimateBPM
MaxOps == 4         \* user operations on the panel in one behaviour
LongOps == 2        \* the same, on the long sequence

halfFFT == fftSize \div 2
NaN == 0 - 1
Null == [kind |-> "null"]
Pending == [kind |-> "pending"]

----------------------------------------------------------------------------
(* Arithmetic helpers *)

Min(a, b) == IF a < b THEN a ELSE b
Max(a, b) == IF a > b THEN a ELSE b
Abs(a) == IF a < 0 THEN 0 - a ELSE a

\* Math.round(a / b) for a >= 0, b > 0: halves round up
RoundDiv(a, b) == (2 * a + b) \div (2 * b)

RECURSIVE SqrtSearch(_, _, _)
SqrtSearch(n, lo, hi) ==
    IF lo >= hi THEN lo
    ELSE LET mid == (lo + hi + 1) \div 2
         IN  IF mid * mid <= n THEN SqrtSearch(n, mid, hi)
                               ELSE SqrtSearch(n, lo, mid - 1)

\* floor(Math.sqrt(n))
ISqrt(n) == SqrtSearch(n, 0, Min(n, 46340))

RECURSIVE SumSeq(_)
SumSeq(s) == IF s = << >> THEN 0 ELSE s[1] + SumSeq(Tail(s))

\* the loops over a series are unfolded by halves, to keep the evaluation
\* shallow; the order of the iterations is the code's
RECURSIVE SumRange(_, _, _)
SumRange(s, a, b) ==
    IF a > b THEN 0
    ELSE IF a = b THEN s[a]
    ELSE SumRange(s, a, (a + b) \div 2) + SumRange(s, ((a + b) \div 2) + 1, b)

\* the largest of s[a], .., s[b], for a <= b
RECURSIVE MaxRange(_, _, _)
MaxRange(s, a, b) ==
    IF a >= b THEN s[a]
    ELSE LET left == MaxRange(s, a, (a + b) \div 2)
             right == MaxRange(s, ((a + b) \div 2) + 1, b)
         IN  IF left >= right THEN left ELSE right

\* the largest of m and the values of s
MaxSeq(s, m) == IF Len(s) = 0 THEN m ELSE Max(m, MaxRange(s, 1, Len(s)))

RECURSIVE SumSet(_, _)
SumSet(S, f) ==
    IF S = {} THEN 0
    ELSE LET x == CHOOSE y \in S : TRUE
         IN  f[x] + SumSet(S \ {x}, f)

----------------------------------------------------------------------------
(* Test audio: a channel is a pattern at an amplitude *)

Silence == [pattern |-> "silence", amp |-> 0]

\* the magnitude vector of the frame starting at sample `start` of a
\* unit-amplitude pattern
PatternMags(pattern, start) ==
    LET k == start \div hopSize
    IN  CASE pattern = "clicks" /\ k % 8 = 3 -> (2 :> 2 @@ 8 :> 1)
          [] pattern = "clicks" /\ k % 8 = 5 -> (40 :> 1 @@ 120 :> 2)
          [] pattern = "clicks" /\ k % 8 = 7 -> (300 :> 1 @@ 700 :> 2)
          [] pattern = "tone"                -> (20 :> 1)
          [] pattern = "swell" /\ k % 8 = 5  -> (8 :> 1)
          [] pattern = "swell" /\ k % 8 = 6  -> (8 :> 3)
          [] OTHER -> << >>

\* windowing, _fft and the magnitudes of one frame
Spectrum(samples, start) ==
    IF samples.amp = 0 THEN << >>
    ELSE LET m == PatternMags(samples.pattern, start)
         IN  [b \in DOMAIN m |-> samples.amp * m[b]]

MagAt(frame, b) == IF b \in DOMAIN frame.mags THEN frame.mags[b] ELSE 0

\* a mix that adds the two channels without halving the sum
mixToMonoSum(buf) ==
    IF buf.numberOfChannels = 1
    THEN [length |-> buf.length, pattern |-> buf.left.pattern,
          amp |-> buf.left.amp]
    ELSE [length |-> buf.length, pattern |-> buf.left.pattern,
          amp |-> buf.left.amp + buf.right.amp]

mixToMono(buf) ==
    IF buf.numberOfChannels = 1
    THEN [length |-> buf.length, pattern |-> buf.left.pattern,
          amp |-> buf.left.amp]
    ELSE LET right == IF buf.numberOfChannels > 1 THEN buf.right ELSE buf.left
         IN  [length |-> buf.length,
              pattern |-> IF buf.left.amp = 0 THEN right.pattern
                          ELSE buf.left.pattern,
              amp |-> (buf.left.amp + right.amp) \div 2]

----------------------------------------------------------------------------
(* _computeSTFT *)

\* a frame count with the quotient truncated toward zero instead of floored
numFramesTruncated(samples) ==
    IF samples.length >= fftSize
    THEN ((samples.length - fftSize) \div hopSize) + 1
    ELSE 1 - ((fftSize - samples.length) \div hopSize)

numFramesOf(samples) == ((samples.length - fftSize) \div hopSize) + 1

\* frames laid end to end, without overlap
NewFrameNoOverlap(samples, frame) ==
    [start |-> frame * fftSize, bins |-> halfFFT,
     mags |-> Spectrum(samples, frame * fftSize)]

NewFrame(samples, frame) ==
    [start |-> frame * hopSize, bins |-> halfFFT,
     mags |-> Spectrum(samples, frame * hopSize)]

----------------------------------------------------------------------------
(* Band energy extraction and spectral flux *)

binForFreq(freq, sr) == RoundDiv(freq * fftSize, sr)

BandLowBin(k, sr) == binForFreq(bands[k].low, sr)
BandHighBin(k, sr) == Min(binForFreq(bands[k].high, sr), halfFFT - 1)

\* sum of frame[b]^2 for b = lowBin..highBin
SumSquares(frame, lowBin, highBin) ==
    LET D == { b \in DOMAIN frame.mags : lowBin <= b /\ b <= highBin }
    IN  SumSet(D, [b \in D |-> frame.mags[b] * frame.mags[b]])

\* energy / numBins: 0/0 is NaN, 0 over a negative count is (minus) zero
BandEnergyAt(frame, lowBin, highBin) ==
    LET numBins == highBin - lowBin + 1
        energy == SumSquares(frame, lowBin, highBin)
    IN  IF numBins = 0 THEN NaN
        ELSE IF numBins < 0 THEN 0
        ELSE (energy * Scale) \div numBins

extractBandEnergies(spec, sr) ==
    [n \in BandNames |->
        [i \in 1..Len(spec) |->
            BandEnergyAt(spec[i], BandLowBin(BandOf(n), sr),
                         BandHighBin(BandOf(n), sr))]]

\* sqrt of the sum over b = lowBin..highBin of the squared positive
\* differences cur[b] - prev[b]
RectifiedFlux(prev, cur, lowBin, highBin) ==
    LET D == { b \in (DOMAIN cur.mags) \cup (DOMAIN prev.mags) :
                 lowBin <= b /\ b <= highBin }
        sq == [b \in D |->
                 LET diff == MagAt(cur, b) - MagAt(prev, b)
                 IN  IF diff > 0 THEN diff * diff ELSE 0]
    IN  ISqrt(SumSet(D, sq) * Scale * Scale)

computeBandFlux(spec, sr) ==
    [n \in BandNames |->
        [i \in 1..Len(spec) |->
            IF i = 1 THEN 0
            ELSE RectifiedFlux(spec[i - 1], spec[i],
                               BandLowBin(BandOf(n), sr),
                               BandHighBin(BandOf(n), sr))]]

----------------------------------------------------------------------------
(* Spectral features *)

computeHFC(spec) ==
    [i \in 1..Len(spec) |->
        LET D == DOMAIN spec[i].mags
            w == [b \in D |-> spec[i].mags[b] * spec[i].mags[b] * (b + 1)]
        IN  (SumSet(D, w) * Scale) \div spec[i].bins]

\* min(1, spread / (frame.length * 0.3)); the spread is kept in tenths of
\* a bin
BroadnessAt(frame) ==
    LET D == DOMAIN frame.mags
        e == [b \in D |-> frame.mags[b] * frame.mags[b]]
        totalEnergy == SumSet(D, e)
        centroidSum == SumSet(D, [b \in D |-> e[b] * b])
        squareSum == SumSet(D, [b \in D |-> e[b] * b * b])
    IN  IF totalEnergy = 0 THEN 0
        ELSE LET variance == (totalEnergy * squareSum
                                - centroidSum * centroidSum)
                             \div (totalEnergy * totalEnergy)
                 spread10 == ISqrt(variance * 100)
             IN  Min(Scale, (spread10 * Scale) \div (frame.bins * 3))

computeSpectralBroadness(spec) ==
    [i \in 1..Len(spec) |-> BroadnessAt(spec[i])]

\* Math.max() of no argument
MinusInfinity == 0 - 2147483647

\* a maximum without the fallback to 1
MaxOrZero(flux) == MaxSeq(flux, 0)

\* Math.max(...flux) || 1, for a flux of non-negative values: an empty
\* flux gives -Infinity, which is not falsy
MaxOrOne(flux) ==
    IF Len(flux) = 0 THEN MinusInfinity
    ELSE IF MaxSeq(flux, 0) = 0 THEN 1 ELSE MaxSeq(flux, 0)

\* flux[i] /= maxFlux (an empty flux has nothing to divide)
NormalizeFlux(flux) ==
    LET maxFlux == MaxOrOne(flux)
    IN  [i \in 1..Len(flux) |-> (flux[i] * Scale) \div maxFlux]

centroidLowBin(sr) == binForFreq(300, sr)
centroidHighBin(sr) == binForFreq(6000, sr)
vocalLowBin(sr) == binForFreq(300, sr)
vocalHighBin(sr) == binForFreq(4000, sr)

\* the centroid of bins lowBin..highBin below frame.length, in hundredths
\* of a bin
CentroidAt(frame, lowBin, highBin) ==
    LET D == { b \in DOMAIN frame.mags :
                 lowBin <= b /\ b <= highBin /\ b < frame.bins }
        e == [b \in D |-> frame.mags[b] * frame.mags[b]]
        totalEnergy == SumSet(D, e)
        centroid == SumSet(D, [b \in D |-> e[b] * b])
    IN  IF totalEnergy > 0 THEN (centroid * 100) \div totalEnergy ELSE 0

\* the flux of centroid changes, before it is normalised
centroidFluxRaw(spec, sr) ==
    LET lowBin == centroidLowBin(sr)
        highBin == centroidHighBin(sr)
        centroids == [i \in 1..Len(spec) |->
                         CentroidAt(spec[i], lowBin, highBin)]
    IN  [i \in 1..Len(spec) |->
            IF i = 1 THEN 0
            ELSE Abs(centroids[i] - centroids[i - 1])]

computeCentroidFlux(spec, sr) == NormalizeFlux(centroidFluxRaw(spec, sr))

\* the vocal-range flux, before it is normalised
vocalFluxRaw(spec, sr) ==
    LET lowBin == vocalLowBin(sr)
        highBin == vocalHighBin(sr)
    IN  [i \in 1..Len(spec) |->
            IF i = 1 THEN 0
            ELSE RectifiedFlux(spec[i - 1], spec[i], lowBin,
                               Min(highBin, spec[i].bins - 1))]

computeVocalFlux(spec, sr) == NormalizeFlux(vocalFluxRaw(spec, sr))

----------------------------------------------------------------------------
(* Band combination *)

\* data[j] || 0
OrZero(v) == IF v = NaN THEN 0 ELSE v

\* if (max > 0) combined[i] /= max
NormalizeByMax(combined) ==
    LET max == MaxSeq(combined, 0)
    IN  IF max > 0
        THEN [i \in 1..Len(combined) |-> (combined[i] * Scale) \div max]
        ELSE combined

\* combined[j] += (data[j] || 0) * weight, over the bands
weightedSum(bandData, bandNames, weights) ==
    LET length == Len(bandData[bandNames[1]])
    IN  [j \in 1..length |->
            SumSeq([i \in 1..Len(bandNames) |->
                      OrZero(bandData[bandNames[i]][j]) * weights[i]])]

combineBands(bandData, bandNames, weights) ==
    NormalizeByMax(weightedSum(bandData, bandNames, weights))

----------------------------------------------------------------------------
(* Onset detection.  Frames are numbered from 0 as in the code; frame i of *)
(* a series s is s[i + 1].                                                 *)

\* floor(minInterval * this.sampleRate / this.hopSize)
minGapFramesOf(minIntervalMs, sr) == (minIntervalMs * sr) \div (1000 * hopSize)

\* first-order difference, half-wave rectified; odf[0] = 0
OdfOf(sig) ==
    [j \in 1..Len(sig) |->
        IF j = 1 THEN 0
        ELSE IF sig[j] - sig[j - 1] > 0 THEN sig[j] - sig[j - 1] ELSE 0]

\* a threshold without the constant 0.001, met with equality
AtThresholdNoEps(value, windowSum, adaptiveWindow, sensitivity10) ==
    value * (2 * adaptiveWindow + 1) * 1000
        >= windowSum * (40 - 3 * sensitivity10) * 100

\* odf[i] > localMean * thresholdMult + 0.001, where localMean is
\* windowSum / (2 * adaptiveWindow + 1) and thresholdMult is
\* 1 + (1 - sensitivity) * 3 = (40 - 3 * sensitivity10) / 10
AboveThreshold(value, windowSum, adaptiveWindow, sensitivity10) ==
    value * (2 * adaptiveWindow + 1) * 1000
        > windowSum * (40 - 3 * sensitivity10) * 100
            + EpsPerMille * Scale * (2 * adaptiveWindow + 1)

\* peak picking that looks at the previous frame only
IsCandidateRising(odf, i, adaptiveWindow, sensitivity10) ==
    /\ AboveThreshold(odf[i + 1],
                      SumRange(odf, i - adaptiveWindow + 1,
                               i + adaptiveWindow + 1),
                      adaptiveWindow, sensitivity10)
    /\ odf[i + 1] >= odf[i]

\* peak picking at frame i: above the threshold and a local maximum
IsCandidate(odf, i, adaptiveWindow, sensitivity10) ==
    /\ AboveThreshold(odf[i + 1],
                      SumRange(odf, i - adaptiveWindow + 1,
                               i + adaptiveWindow + 1),
                      adaptiveWindow, sensitivity10)
    /\ odf[i + 1] >= odf[i]
    /\ odf[i + 1] >= odf[i + 2]

\* a policy without the minimum gap: every candidate is pushed
AcceptAlways(list, odf, i, minGapFrames) == Append(list, i)

\* a policy in which an equal later candidate replaces the last onset
AcceptLaterOnTie(list, odf, i, minGapFrames) ==
    IF Len(list) = 0 \/ (i - list[Len(list)]) >= minGapFrames
    THEN Append(list, i)
    ELSE IF odf[i + 1] >= odf[list[Len(list)] + 1]
    THEN [list EXCEPT ![Len(list)] = i]
    ELSE list

\* what a candidate frame i does to the list of onsets
AcceptCandidate(list, odf, i, minGapFrames) ==
    IF Len(list) = 0 \/ (i - list[Len(list)]) >= minGapFrames
    THEN Append(list, i)
    ELSE IF odf[i + 1] > odf[list[Len(list)] + 1]
    THEN [list EXCEPT ![Len(list)] = i]
    ELSE list

\* one iteration of the scan
OnsetStep(list, odf, i, opts, sr) ==
    IF IsCandidate(odf, i, opts.adaptiveWindow, opts.sensitivity)
    THEN AcceptCandidate(list, odf, i, minGapFramesOf(opts.minInterval, sr))
    ELSE list

\* the iterations i = a .. b of the scan, in order
RECURSIVE OnsetScan(_, _, _, _, _, _)
OnsetScan(list, odf, a, b, opts, sr) ==
    IF a > b THEN list
    ELSE IF a = b THEN OnsetStep(list, odf, a, opts, sr)
    ELSE LET firstHalf == OnsetScan(list, odf, a, (a + b) \div 2, opts, sr)
         IN  IF Len(firstHalf) >= 0
             THEN OnsetScan(firstHalf, odf, ((a + b) \div 2) + 1, b, opts, sr)
             ELSE firstHalf

\* for (let i = adaptiveWindow; i < odf.length - adaptiveWindow; i++)
detectOnsets(sig, opts, sr) ==
    OnsetScan(<< >>, OdfOf(sig), opts.adaptiveWindow,
              Len(sig) - opts.adaptiveWindow - 1, opts, sr)

----------------------------------------------------------------------------
(* BPM estimation *)

minLagOf(sr) == (60 * sr) \div (MaxTempo * hopSize)
maxLagOf(sr) == (60 * sr) \div (MinTempo * hopSize)

\* the sum of odf[i] * odf[i + lag] over i = 0 .. length - lag - 1
CorrSum(odf, lag) ==
    SumRange([j \in 1..(Len(odf) - lag) |-> odf[j] * odf[j + lag]],
             1, Len(odf) - lag)

\* corr >= bestCorr: the last of equal correlations wins
BetterOrEqual(sum, count, best) ==
    best.lag < 0 \/ sum * best.count >= best.sum * count

\* corr > bestCorr for corr = sum / count; best.lag < 0 is bestCorr =
\* -Infinity
Better(sum, count, best) ==
    best.lag < 0 \/ sum * best.count > best.sum * count

\* one iteration of the lag loop
LagStep(odf, lag, best) ==
    LET sum == CorrSum(odf, lag)
        count == Len(odf) - lag
    IN  IF Better(sum, count, best)
        THEN [lag |-> lag, sum |-> sum, count |-> count]
        ELSE best

\* the iterations lag = a .. b of the lag loop, in order
RECURSIVE LagSearch(_, _, _, _)
LagSearch(odf, a, b, best) ==
    IF a > b THEN best
    ELSE IF a = b THEN LagStep(odf, a, best)
    ELSE LET firstHalf == LagSearch(odf, a, (a + b) \div 2, best)
         IN  IF firstHalf.lag >= 0 - 1
             THEN LagSearch(odf, ((a + b) \div 2) + 1, b, firstHalf)
             ELSE firstHalf

\* a search up to maxLag whatever the length of the ODF
lastLagIsMaxLag(length, sr) == maxLagOf(sr)

\* the last lag of: for (lag = minLag; lag <= maxLag && lag < acfLength; ..)
lastLagOf(length, sr) == Min(maxLagOf(sr), Min(maxLagOf(sr) + 1, length) - 1)

bestLagOf(energySignal, sr) ==
    LET best == LagSearch(OdfOf(energySignal), minLagOf(sr),
                          lastLagOf(Len(energySignal), sr),
                          [lag |-> 0 - 1, sum |-> 0, count |-> 1])
    IN  IF best.lag < 0 THEN minLagOf(sr) ELSE best.lag

\* no halving at all
HalveNever(num, den) == << num, den >>

\* while (bpm > 200) bpm /= 2, for bpm = num / den
RECURSIVE Halve(_, _)
Halve(num, den) ==
    IF num > FoldHigh * den THEN Halve(num, 2 * den) ELSE << num, den >>

\* while (bpm < 60) bpm *= 2
RECURSIVE Double(_, _)
Double(num, den) ==
    IF num < FoldLow * den THEN Double(2 * num, den) ELSE << num, den >>

\* 60 / (lag * hopSize / sampleRate), folded and rounded to one decimal;
\* the result is in tenths of a BPM
NormalizeBpm(lag, sr) ==
    LET h == Halve(60 * sr, lag * hopSize)
        d == Double(h[1], h[2])
    IN  RoundDiv(d[1] * 10, d[2])

\* a lag of 0 gives bpm = Infinity, which no halving brings under 200: the
\* call does not return
NoReturn == 0 - 1

estimateBPM(energySignal, sr) ==
    LET bestLag == bestLagOf(energySignal, sr)
    IN  IF bestLag = 0 THEN NoReturn ELSE NormalizeBpm(bestLag, sr)

----------------------------------------------------------------------------
(* Utilities *)

\* a time computed with the constructor's sample rate
frameToTimeAtDefaultRate(frameIndex, sr) ==
    (frameIndex * hopSize * 1000) \div DefaultSampleRate

\* frameIndex * hopSize / sampleRate, in milliseconds
frameToTime(frameIndex, sr) == (frameIndex * hopSize * 1000) \div sr

----------------------------------------------------------------------------
(* analyze(): the per-channel recipes *)

adaptiveWindowOf ==
    [kick |-> 15, snare |-> 12, hihat |-> 8, bass |-> 20, melody |-> 15,
     vocal |-> 18]

defaultMinInterval ==
    [kick |-> 120, snare |-> 80, hihat |-> 50, bass |-> 150, melody |-> 100,
     vocal |-> 150]

progressPct ==
    [kick |-> 65, snare |-> 70, hihat |-> 75, bass |-> 80, melody |-> 85,
     vocal |-> 88]

\* snareEnergy.map((e, i) => e * (0.6 + 0.4 * (spectralBroadness[i] || 0)))
combinedSnareOf(spec, energies) ==
    LET snareEnergy == combineBands(energies, <<"lowMid", "highMid">>,
                                    <<8, 12>>)
        spectralBroadness == computeSpectralBroadness(spec)
    IN  [i \in 1..Len(snareEnergy) |->
            (snareEnergy[i] * (6 * Scale + 4 * spectralBroadness[i]))
                \div (10 * Scale)]

\* hihatEnergy.map((e, i) => e * 0.4 + (hfc[i] || 0) * 0.6)
combinedHihatOf(spec, energies) ==
    LET hihatEnergy == combineBands(energies, <<"presence", "brilliance">>,
                                    <<10, 10>>)
        hfc == computeHFC(spec)
    IN  [i \in 1..Len(hihatEnergy) |->
            (4 * hihatEnergy[i] + 6 * hfc[i]) \div 10]

\* melodyFlux.map((e, i) => e * 0.6 + (centroidFlux[i] || 0) * 0.4)
combinedMelodyOf(spec, flux, sr) ==
    LET melodyFlux == combineBands(flux, <<"lowMid", "highMid">>, <<10, 10>>)
        centroidFlux == computeCentroidFlux(spec, sr)
    IN  [i \in 1..Len(melodyFlux) |->
            (6 * melodyFlux[i] + 4 * centroidFlux[i]) \div 10]

\* the signal a channel hands to _detectOnsets
detectionSignalOf(ch, spec, energies, flux, sr) ==
    CASE ch = "kick"   -> combineBands(energies, <<"subBass", "bass">>,
                                       <<14, 6>>)
      [] ch = "snare"  -> combinedSnareOf(spec, energies)
      [] ch = "hihat"  -> combinedHihatOf(spec, energies)
      [] ch = "bass"   -> combineBands(flux, <<"subBass", "bass">>, <<6, 14>>)
      [] ch = "melody" -> combinedMelodyOf(spec, flux, sr)
      [] ch = "vocal"  -> computeVocalFlux(spec, sr)

\* strengths read from the signal that drove the detection, bass included
strengthFromDetection(ch, spec, energies, flux, sr) ==
    detectionSignalOf(ch, spec, energies, flux, sr)

\* the signal a channel's event strengths are read from
strengthSignalOf(ch, spec, energies, flux, sr) ==
    IF ch = "bass"
    THEN combineBands(energies, <<"subBass", "bass">>, <<6, 14>>)
    ELSE detectionSignalOf(ch, spec, energies, flux, sr)

\* onsets.map(i => ({ time, frame, strength, type }))
eventsOf(ch, list, strength, sr) ==
    [k \in 1..Len(list) |->
        [time |-> frameToTime(list[k], sr), frame |-> list[k],
         strength |-> strength[list[k] + 1], type |-> ch]]

channelEvents(ch, spec, energies, flux, opts, sr) ==
    eventsOf(ch,
             detectOnsets(detectionSignalOf(ch, spec, energies, flux, sr),
                          [sensitivity |-> opts.sensitivity[ch],
                           minInterval |-> opts.minInterval[ch],
                           adaptiveWindow |-> adaptiveWindowOf[ch]], sr),
             strengthSignalOf(ch, spec, energies, flux, sr), sr)

allOnsetEnergyOf(energies) ==
    combineBands(energies, <<"subBass", "bass", "lowMid", "highMid">>,
                 <<6, 4, 5, 5>>)

----------------------------------------------------------------------------
(* analyze(): control flow.  Between two progress callbacks the code runs  *)
(* without interruption; each action below is one callback, in which the   *)
(* caller may set cancelToken.cancelled, and the code up to the next one.  *)

\* what the caller may do to the flag inside a progress callback
CallbackChoices ==
    IF hasCallback /\ hasToken /\ ~cancelled THEN BOOLEAN ELSE {FALSE}

\* a callback that starts no analysis, on an instance not used before
FirstUse == [before |-> DefaultSampleRate, at |-> 0,
             rate |-> DefaultSampleRate]

\* analyze() called from inside the callback on a buffer of the given rate:
\* it runs to its return before the callback returns, and what it leaves
\* in the instance is its assignment to this.sampleRate
nestedAnalyze(rate) == rate

\* if (progressCallback) progressCallback(pct, ..)
Callback(pct, setsFlag) ==
    /\ progress' = IF hasCallback THEN Append(progress, pct) ELSE progress
    /\ sampleRate' = IF hasCallback /\ caller.at = pct
                     THEN nestedAnalyze(caller.rate)
                     ELSE sampleRate
    /\ cancelled' = (cancelled \/ setsFlag)
    /\ cancelledAt' = IF setsFlag THEN pct ELSE cancelledAt

\* isCancelled(), evaluated after the callback
isCancelled == hasToken /\ cancelled'

\* stages entered whatever the detect flags say
stageAfterAny(k) == IF k >= Len(Channels) THEN "bpm" ELSE Channels[k + 1]

\* the stage after channel number k (0: after the band flux)
RECURSIVE stageAfter(_)
stageAfter(k) ==
    IF k >= Len(Channels) THEN "bpm"
    ELSE IF options.detect[Channels[k + 1]] THEN Channels[k + 1]
    ELSE stageAfter(k + 1)

channelNumber(ch) == CHOOSE k \in 1..Len(Channels) : Channels[k] = ch

ReturnNull ==
    /\ ret' = Null
    /\ pc' = "returned"

\* an analyze() that keeps the sample rate the instance already has
AnalyzeCallKeepsRate ==
    /\ pc = "idle"
    /\ pc' = "mix"
    /\ UNCHANGED << panelVars,
                    sampleRate, caller, audioBuffer, options, hasCallback,
                    hasToken, cancelled, stftFrame, mono, stftLocal,
                    spectrogram, bandEnergies, bandFlux, results, ret,
                    progress, cancelledAt, signal, detOpts, scanI, onsets,
                    lastStep, bpm >>

AnalyzeCall ==
    /\ pc = "idle"
    /\ sampleRate' = audioBuffer.sampleRate
    /\ pc' = "mix"
    /\ UNCHANGED << panelVars,
                    caller, audioBuffer, options, hasCallback, hasToken,
                    cancelled, stftFrame, mono, stftLocal, spectrogram,
                    bandEnergies,
                    bandFlux, results, ret, progress, cancelledAt, signal,
                    detOpts, scanI, onsets, lastStep, bpm >>

MixStage ==
    /\ pc = "mix"
    /\ \E c \in CallbackChoices :
        /\ Callback(5, c)
        /\ IF isCancelled
           THEN ReturnNull /\ UNCHANGED mono
           ELSE /\ mono' = mixToMono(audioBuffer)
                /\ pc' = "stft"
                /\ UNCHANGED ret
    /\ UNCHANGED << panelVars,
                    caller, audioBuffer, options, hasCallback, hasToken,
                    stftFrame, stftLocal, spectrogram, bandEnergies, bandFlux,
                    results, signal, detOpts, scanI, onsets, lastStep, bpm >>

\* the percentage of the stage alone, as shown in the callback's message
stftPctOfStage(frame, numFrames) == (frame * 100) \div numFrames

\* 10 + Math.floor((frame / numFrames) * 40)
stftPct(frame, numFrames) == 10 + ((frame * 40) \div numFrames)

\* a frame loop that never polls the flag
RunFramesNoPoll(local, f, samples, flag, withCallback) ==
    LET numFrames == numFramesOf(samples)
        calls == { g \in f..(numFrames - 1) :
                     withCallback /\ g % ProgressEvery = 0 }
        stop == IF calls = {} THEN Max(f, numFrames)
                ELSE CHOOSE g \in calls : \A h \in calls : g <= h
        last == IF calls = {} THEN stop - 1 ELSE stop
        pushed == [k \in 1..(last - f + 1) |-> NewFrame(samples, f + k - 1)]
    IN  [out |-> IF calls = {} THEN "end" ELSE "callback",
         local |-> local \o pushed,
         frame |-> stop]

\* the frame loop of _computeSTFT from frame f on, up to its next progress
\* callback, its return of null or its end
RunFrames(local, f, samples, flag, withCallback) ==
    LET numFrames == numFramesOf(samples)
        \* the iterations that return null, and those that call back
        nulls == { g \in f..(numFrames - 1) : g % CancelEvery = 0 /\ flag }
        calls == { g \in f..(numFrames - 1) :
                     withCallback /\ g % ProgressEvery = 0 }
        stops == nulls \cup calls
        stop == IF stops = {} THEN Max(f, numFrames)
                ELSE CHOOSE g \in stops : \A h \in stops : g <= h
        \* the frames pushed: f .. stop, less the one that returns null
        last == IF stop \in nulls \/ stops = {} THEN stop - 1 ELSE stop
        pushed == [k \in 1..(last - f + 1) |-> NewFrame(samples, f + k - 1)]
    IN  [out |-> IF stops = {} THEN "end"
                 ELSE IF stop \in nulls THEN "null" ELSE "callback",
         local |-> local \o pushed,
         frame |-> stop]

\* a _computeSTFT that returns the frames built so far when cancelled
stftReturnPrefix(run) == [kind |-> "frames", frames |-> run.local]

\* what _computeSTFT returns when its loop is left
stftReturn(run) ==
    IF run.out = "null" THEN Null
    ELSE [kind |-> "frames", frames |-> run.local]

\* the rest of _computeSTFT, and analyze() up to the 50% callback
AfterFrames(run) ==
    /\ stftLocal' = run.local
    /\ stftFrame' = run.frame
    /\ IF run.out = "callback"
       THEN /\ pc' = "stftProgress"
            /\ UNCHANGED << spectrogram, ret >>
       ELSE /\ spectrogram' = stftReturn(run)
            /\ IF stftReturn(run).kind = "null" \/ isCancelled
               THEN ReturnNull
               ELSE pc' = "bands" /\ UNCHANGED ret

StftStage ==
    /\ pc = "stft"
    /\ \E c \in CallbackChoices :
        /\ Callback(10, c)
        /\ IF isCancelled
           THEN /\ ReturnNull
                /\ UNCHANGED << stftFrame, stftLocal, spectrogram >>
           ELSE AfterFrames(RunFrames(<< >>, 0, mono, hasToken /\ cancelled',
                                      hasCallback))
    /\ UNCHANGED << panelVars,
                    caller, audioBuffer, options, hasCallback, hasToken,
                    mono, bandEnergies, bandFlux, results, signal, detOpts,
                    scanI, onsets, lastStep, bpm >>

\* the progress callback inside the frame loop, and the loop after it
StftProgress ==
    /\ pc = "stftProgress"
    /\ \E c \in CallbackChoices :
        /\ Callback(stftPct(stftFrame, numFramesOf(mono)), c)
        /\ AfterFrames(RunFrames(stftLocal, stftFrame + 1, mono,
                                 hasToken /\ cancelled', hasCallback))
    /\ UNCHANGED << panelVars,
                    caller, audioBuffer, options, hasCallback, hasToken,
                    mono, bandEnergies, bandFlux, results, signal, detOpts,
                    scanI, onsets, lastStep, bpm >>

BandsStage ==
    /\ pc = "bands"
    /\ \E c \in CallbackChoices :
        /\ Callback(50, c)
        /\ IF isCancelled
           THEN ReturnNull /\ UNCHANGED bandEnergies
           ELSE /\ bandEnergies' =
                       extractBandEnergies(spectrogram.frames, sampleRate')
                /\ pc' = "flux"
                /\ UNCHANGED ret
    /\ UNCHANGED << panelVars,
                    caller, audioBuffer, options, hasCallback, hasToken,
                    stftFrame, mono, stftLocal, spectrogram, bandFlux, results,
                    signal, detOpts, scanI, onsets, lastStep, bpm >>

FluxStage ==
    /\ pc = "flux"
    /\ \E c \in CallbackChoices :
        /\ Callback(60, c)
        /\ IF isCancelled
           THEN ReturnNull /\ UNCHANGED << bandFlux, results >>
           ELSE /\ bandFlux' = computeBandFlux(spectrogram.frames, sampleRate')
                /\ results' = [events |-> << >>, hasBpm |-> FALSE, bpm |-> 0]
                /\ pc' = stageAfter(0)
                /\ UNCHANGED ret
    /\ UNCHANGED << panelVars,
                    caller, audioBuffer, options, hasCallback, hasToken,
                    stftFrame, mono, stftLocal, spectrogram, bandEnergies,
                    signal, detOpts, scanI, onsets, lastStep, bpm >>

\* whether the stage of channel ch polls the flag after its callback
stageChecksFlag(ch) == ch # "vocal"

\* the stages of kick, snare, hihat, bass, melody and vocal
ChannelStage(ch) ==
    /\ pc = ch
    /\ \E c \in CallbackChoices :
        /\ Callback(progressPct[ch], c)
        /\ IF stageChecksFlag(ch) /\ isCancelled
           THEN ReturnNull /\ UNCHANGED << results, signal, detOpts, onsets >>
           ELSE /\ signal' = detectionSignalOf(ch, spectrogram.frames,
                                               bandEnergies, bandFlux,
                                               sampleRate')
                /\ detOpts' = [sensitivity |-> options.sensitivity[ch],
                               minInterval |-> options.minInterval[ch],
                               adaptiveWindow |-> adaptiveWindowOf[ch]]
                /\ onsets' = detectOnsets(signal', detOpts', sampleRate')
                /\ results' =
                       [results EXCEPT !.events = @ @@
                           (ch :> eventsOf(ch, onsets',
                                           IF ch = "bass"
                                           THEN strengthSignalOf(
                                                    ch, spectrogram.frames,
                                                    bandEnergies, bandFlux,
                                                    sampleRate')
                                           ELSE signal',
                                           sampleRate'))]
                /\ pc' = stageAfter(channelNumber(ch))
                /\ UNCHANGED ret
    /\ UNCHANGED << panelVars,
                    caller, audioBuffer, options, hasCallback, hasToken,
                    stftFrame, mono, stftLocal, spectrogram, bandEnergies,
                    bandFlux, scanI, lastStep, bpm >>

BpmStage ==
    /\ pc = "bpm"
    /\ \E c \in CallbackChoices :
        /\ Callback(92, c)
        /\ LET value == estimateBPM(allOnsetEnergyOf(bandEnergies),
                                    sampleRate')
           IN  IF value = NoReturn
               THEN pc' = "diverged" /\ UNCHANGED results
               ELSE /\ results' = [results EXCEPT !.hasBpm = TRUE,
                                                  !.bpm = value]
                    /\ pc' = "complete"
    /\ UNCHANGED << panelVars,
                    caller, audioBuffer, options, hasCallback, hasToken,
                    stftFrame, mono, stftLocal, spectrogram, bandEnergies,
                    bandFlux, ret, signal, detOpts, scanI, onsets, lastStep,
                    bpm >>

CompleteStage ==
    /\ pc = "complete"
    /\ \E c \in CallbackChoices :
        /\ Callback(100, c)
        /\ ret' = [kind |-> "result", events |-> results.events,
                   hasBpm |-> results.hasBpm, bpm |-> results.bpm]
        /\ pc' = "returned"
    /\ UNCHANGED << panelVars,
                    caller, audioBuffer, options, hasCallback, hasToken,
                    stftFrame, mono, stftLocal, spectrogram, bandEnergies,
                    bandFlux, results, signal, detOpts, scanI, onsets,
                    lastStep, bpm >>

----------------------------------------------------------------------------
(* _detectOnsets, one loop iteration per step *)

\* what iteration i does: "skip" (no candidate), "push", "replace", "drop"
stepKind(list, odf, i, opts, sr) ==
    IF ~IsCandidate(odf, i, opts.adaptiveWindow, opts.sensitivity)
    THEN "skip"
    ELSE IF Len(OnsetStep(list, odf, i, opts, sr)) > Len(list) THEN "push"
    ELSE IF OnsetStep(list, odf, i, opts, sr) # list THEN "replace"
    ELSE "drop"

ScanStep ==
    /\ pc = "scan"
    /\ scanI < Len(signal) - detOpts.adaptiveWindow
    /\ onsets' = OnsetStep(onsets, OdfOf(signal), scanI, detOpts, sampleRate)
    /\ lastStep' = stepKind(onsets, OdfOf(signal), scanI, detOpts, sampleRate)
    /\ scanI' = scanI + 1
    /\ UNCHANGED << panelVars,
                    caller, sampleRate, audioBuffer, options, hasCallback,
                    hasToken,
                    cancelled, pc, stftFrame, mono, stftLocal, spectrogram,
                    bandEnergies, bandFlux, results, ret, progress,
                    cancelledAt, signal, detOpts, bpm >>

ScanReturn ==
    /\ pc = "scan"
    /\ ~(scanI < Len(signal) - detOpts.adaptiveWindow)
    /\ pc' = "scanned"
    /\ UNCHANGED << panelVars,
                    caller, sampleRate, audioBuffer, options, hasCallback,
                    hasToken,
                    cancelled, stftFrame, mono, stftLocal, spectrogram,
                    bandEnergies, bandFlux, results, ret, progress,
                    cancelledAt, signal, detOpts, scanI, onsets, lastStep,
                    bpm >>

----------------------------------------------------------------------------
(* _estimateBPM as one step *)

NotYet == 0 - 2

EstimateBPM ==
    /\ pc = "estimate"
    /\ bpm' = estimateBPM(signal, sampleRate)
    /\ pc' = IF bpm' = NoReturn THEN "diverged" ELSE "estimated"
    /\ UNCHANGED << panelVars,
                    caller, sampleRate, audioBuffer, options, hasCallback,
                    hasToken,
                    cancelled, stftFrame, mono, stftLocal, spectrogram,
                    bandEnergies, bandFlux, results, ret, progress,
                    cancelledAt, signal, detOpts, scanI, onsets, lastStep >>

----------------------------------------------------------------------------
(* Inputs *)

Clicks(a) == [pattern |-> "clicks", amp |-> a]

\* a bass note that comes in softly and swells in the next frame
Swell(a) == [pattern |-> "swell", amp |-> a]

Buffer(len, channels, sr, content) ==
    [length |-> len, numberOfChannels |-> channels, sampleRate |-> sr,
     left |-> content, right |-> content]

\* no sample; one sample short of a frame; 1, 50, 169, 551 and 751 frames
ShortLengths == {0, 2047, 2048}
MediumLength == fftSize + 49 * hopSize
TwoSeconds == 2 * DefaultSampleRate
LongLengths == {283648, 386048}

DeviceRates == {22050, 24000, 44100, 48000}

Buffers ==
    { Buffer(n, 1, 44100, Silence) :
        n \in {MediumLength, TwoSeconds} \cup LongLengths }
    \cup { Buffer(n, c, sr, x) :
             n \in ShortLengths, c \in {1, 2}, sr \in DeviceRates,
             x \in {Silence, Clicks(2)} }
    \cup { Buffer(MediumLength, c, sr, Clicks(2)) :
             c \in {1, 2}, sr \in DeviceRates }
    \cup { Buffer(MediumLength, 1, DefaultSampleRate, Swell(1)) }

DetectSets ==
    { {}, ChannelSet, ChannelSet \ {"vocal"} }
    \cup { {ch} : ch \in ChannelSet }

Sensitivities == {0, 5, 10}

OptionsWith(D, s) ==
    [detect |-> [ch \in ChannelSet |-> ch \in D],
     sensitivity |-> [ch \in ChannelSet |-> s],
     minInterval |-> defaultMinInterval]

\* the longest buffers are analysed with the panel's initial settings only
OptionSets(buf) ==
    IF buf.length \in LongLengths
    THEN { OptionsWith(ChannelSet \ {"vocal"}, 5) }
    ELSE { OptionsWith(D, s) : D \in DetectSets, s \in Sensitivities }

NotCancelled == 0 - 1

\* a test signal takes the values 0, 0.25 and 1.0: rises of 0.25, 0.75 and
\* 1.0
Levels == {0, Scale \div 4, Scale}
SignalsOfLength(n) == [1..n -> Levels]

\* signals of up to half the full length, the empty one included
ShortSignals == UNION { SignalsOfLength(n) : n \in 0..(MaxLen \div 2) }

\* minimum gaps of 0, 3 and 6 frames; thresholds of 2.5 and 1 times the
\* local mean (at 4 times the mean no frame of a window of 3 qualifies)
OnsetRates == {44100}
OnsetOptions ==
    { [sensitivity |-> s, minInterval |-> m, adaptiveWindow |-> w] :
        s \in {5, 10}, m \in {0, 40, 80}, w \in {1, 2} }

\* the series of a silent buffer of two seconds
SilentSeries == [j \in 1..numFramesOf([length |-> TwoSeconds]) |-> 0]

\* 1000 Hz is a rate at which minLag is 0
BpmRates == {1000, 3000, 5120, 8000, 10240, 44100, 48000}

\* the buffers analysed on an instance that is used again
ReuseRates == {44100, 48000}
ReuseBuffers ==
    { Buffer(MediumLength, 1, sr, Clicks(2)) : sr \in ReuseRates }

\* the rate the instance was left with; the progress value at which the
\* callback calls analyze() again (0: at none), and the rate of its buffer
CallerUses ==
    { [before |-> b, at |-> 0, rate |-> b] : b \in {22050, 44100, 48000} }
    \cup { [before |-> DefaultSampleRate, at |-> p, rate |-> r] :
              p \in {5, 50, 65, 92, 100}, r \in {22050, 44100, 48000} }

IdleAnalyze ==
    /\ caller = FirstUse
    /\ audioBuffer = Buffer(0, 1, DefaultSampleRate, Silence)
    /\ options = [detect |-> [ch \in ChannelSet |-> FALSE],
                  sensitivity |-> [ch \in ChannelSet |-> 5],
                  minInterval |-> defaultMinInterval]
    /\ hasCallback = FALSE
    /\ hasToken = FALSE
    /\ cancelled = FALSE
    /\ cancelledAt = NotCancelled

Fresh ==
    /\ stftFrame = 0
    /\ mono = Pending
    /\ stftLocal = << >>
    /\ spectrogram = Pending
    /\ bandEnergies = Pending
    /\ bandFlux = Pending
    /\ results = Pending
    /\ ret = Pending
    /\ progress = << >>

IdleScan ==
    /\ detOpts = [sensitivity |-> 5, minInterval |-> 100,
                  adaptiveWindow |-> 15]
    /\ scanI = 0
    /\ onsets = << >>
    /\ lastStep = "none"

----------------------------------------------------------------------------
(* The panel controller (audio-analyzer.js from line 662) and the          *)
(* ExtendScript host (host/index.jsx).  Times are in milliseconds and      *)
(* tempi in whole beats per minute; null is 0 for a tempo, a token or a    *)
(* file, and NoTime for a time.                                            *)

CHUNK_SIZE == 200
\* while (t < endSec && batch.length < 5000)
GridLimit == 5000
\* the 0.001 s by which the panel widens a range it clears
ClearMargin == 1
\* rangeInfo.fps || 24
DefaultFps == 24
\* clearAllMarkers(): if (count > 10000) break
ClearAllLimit == 10000

NoToken == 0
NoFile == 0
NoTime == 0 - 1
NoCall == [fn |-> "none"]

\* GENRE_PRESETS: the channels each preset enables
GENRE_PRESETS ==
    [rock |-> {"kick", "snare", "hihat"},
     edm |-> {"kick", "snare", "hihat", "bass"},
     hiphop |-> {"kick", "snare", "hihat", "bass"},
     classical |-> {"bass", "melody"},
     acoustic |-> {"kick", "snare", "melody"},
     podcast |-> {"vocal"}]

\* var state = { .. }
InitialState ==
    [bpm |-> 0, subdivision |-> 4, triplet |-> FALSE, timeSigTop |-> 4,
     range |-> "inout", offsetFrames |-> 0,
     audioBuffer |-> NoFile, monoSamples |-> NoFile,
     analysisResults |-> Null, currentPreset |-> "",
     currentCancelToken |-> NoToken,
     lastBatchStartTime |-> 0, lastBatchEndTime |-> 0, lastBatchCount |-> 0,
     lastDetectedBatchStart |-> NoTime, lastDetectedBatchEnd |-> NoTime,
     lastDetectedBatchCount |-> 0,
     channels |-> [ch \in ChannelSet |->
                      [enabled |-> ch \in {"kick", "snare", "bass"},
                       results |-> << >>]]]

\* the buttons' disabled flags; the Suggest button is enabled by the first
\* analysis that stores its results
InitialButtons ==
    [placeGridBtn |-> FALSE, placeDetectedBtn |-> FALSE,
     suggestPresetBtn |-> TRUE]

InitialHistory == [rejected |-> FALSE, runs |-> 0, lastRun |-> 0]

\* test files; a file's events and tempo stand for what analyzer.analyze
\* finds in it
Event(t) == [time |-> t]
NoEvents == [ch \in ChannelSet |-> << >>]
SilentFile ==
    [id |-> 1, decodes |-> TRUE, events |-> NoEvents, bpm |-> 103]
MusicFile ==
    [id |-> 2, decodes |-> TRUE,
     events |-> [NoEvents EXCEPT !.kick = << Event(1000), Event(5000) >>,
                                 !.snare = << Event(3000) >>],
     bpm |-> 120]
BrokenFile == [id |-> 3, decodes |-> FALSE, events |-> NoEvents, bpm |-> 0]
Files == {SilentFile, MusicFile, BrokenFile}
FileOf(id) == CHOOSE f \in Files : f.id = id

----------------------------------------------------------------------------
(* Analysis from the panel *)

\* what analyzer.analyze resolves to for a decoded file and the channels
\* the options enable: the file's events on these channels and its tempo
analyzeFile(file, detect) ==
    [kind |-> "result",
     events |-> [ch \in detect |-> file.events[ch]],
     bpm |-> file.bpm]

\* results[ch] || []
resultsOfChannel(res, ch) ==
    IF ch \in DOMAIN res.events THEN res.events[ch] ELSE << >>

\* state.analysisResults = results; state.channels[ch].results = ..
storeResults(st, res) ==
    [st EXCEPT !.analysisResults = res,
               !.channels = [ch \in ChannelSet |->
                                [@[ch] EXCEPT !.results =
                                                 resultsOfChannel(res, ch)]]]

hasAnyResults(st) == \E ch \in ChannelSet : Len(st.channels[ch].results) > 0

applyGenrePreset(st, presetKey) ==
    [st EXCEPT !.currentPreset = presetKey,
               !.channels = [ch \in ChannelSet |->
                                [@[ch] EXCEPT !.enabled =
                                           ch \in GENRE_PRESETS[presetKey]]]]

\* if (results.bpm) setBPM(results.bpm)
setBPM(st, res) == IF res.bpm # 0 THEN [st EXCEPT !.bpm = res.bpm] ELSE st

\* a token that is cancelled when it is the current one
cancelCurrent(toks, st) ==
    IF st.currentCancelToken # NoToken
    THEN [toks EXCEPT ![st.currentCancelToken] = TRUE]
    ELSE toks

\* the stage of job j becomes s; current records whether the job's token is
\* the one state.currentCancelToken refers to at that moment
jobAt(j, s) ==
    [jobs EXCEPT ![j].stage = s,
                 ![j].current =
                     (state.currentCancelToken = jobs[j].cancelToken)]

analyzeAudioFile(file) ==
    /\ opsLeft > 0
    /\ tokens' = Append(cancelCurrent(tokens, state), FALSE)
    /\ state' = [state EXCEPT !.currentCancelToken = Len(tokens) + 1]
    /\ jobs' = Append(jobs, [file |-> file, cancelToken |-> Len(tokens) + 1,
                             stage |-> "reading", current |-> TRUE])
    /\ opsLeft' = opsLeft - 1
    /\ UNCHANGED << btn, call, seq, markers, history, analyzerVars >>

\* every operation may be a file analysis
JobIds == 1..MaxOps

\* reader.onload
readerOnload(j) ==
    /\ j <= Len(jobs)
    /\ jobs[j].stage = "reading"
    /\ jobs' = jobAt(j, IF tokens[jobs[j].cancelToken]
                        THEN "dropped" ELSE "decoding")
    /\ UNCHANGED << state, btn, tokens, call, seq, markers, history, opsLeft,
                    analyzerVars >>

\* the callbacks of decodeAudioData; analyze() has no await, so it and the
\* callback of its promise run before any other event is handled
decodeAudioData(j) ==
    /\ j <= Len(jobs)
    /\ jobs[j].stage = "decoding"
    /\ IF ~jobs[j].file.decodes
       THEN /\ jobs' = jobAt(j, "failed")
            /\ UNCHANGED << state, btn >>
       ELSE IF tokens[jobs[j].cancelToken]
       THEN /\ jobs' = jobAt(j, "dropped")
            /\ UNCHANGED << state, btn >>
       ELSE LET loaded == [state EXCEPT !.audioBuffer = jobs[j].file.id,
                                        !.monoSamples = jobs[j].file.id]
                detect == { ch \in ChannelSet : state.channels[ch].enabled }
                res == analyzeFile(jobs[j].file, detect)
            IN  /\ state' = setBPM(storeResults(loaded, res), res)
                /\ btn' = [btn EXCEPT !.suggestPresetBtn = FALSE]
                /\ jobs' = jobAt(j, "stored")
    /\ UNCHANGED << tokens, call, seq, markers, history, opsLeft,
                    analyzerVars >>

cancelCurrentAnalysis ==
    /\ opsLeft > 0
    /\ tokens' = cancelCurrent(tokens, state)
    /\ state' = [state EXCEPT !.currentCancelToken = NoToken]
    /\ opsLeft' = opsLeft - 1
    /\ UNCHANGED << btn, jobs, call, seq, markers, history, analyzerVars >>

\* PRESET_EXPECTATIONS, in hundredths, and the order of its keys
PresetKeys == <<"rock", "edm", "hiphop", "classical", "acoustic", "podcast">>
PRESET_EXPECTATIONS ==
    [rock |-> [kick |-> 75, snare |-> 85, hihat |-> 65, bass |-> 20,
               melody |-> 10, vocal |-> 5],
     edm |-> [kick |-> 90, snare |-> 50, hihat |-> 75, bass |-> 85,
              melody |-> 10, vocal |-> 5],
     hiphop |-> [kick |-> 80, snare |-> 70, hihat |-> 70, bass |-> 70,
                 melody |-> 10, vocal |-> 10],
     classical |-> [kick |-> 0, snare |-> 0, hihat |-> 5, bass |-> 40,
                    melody |-> 85, vocal |-> 20],
     acoustic |-> [kick |-> 40, snare |-> 40, hihat |-> 20, bass |-> 30,
                   melody |-> 65, vocal |-> 10],
     podcast |-> [kick |-> 0, snare |-> 0, hihat |-> 0, bass |-> 0,
                  melody |-> 10, vocal |-> 90]]

\* profile[ch].normCount, in hundredths
normCount(res, ch) ==
    LET counts == { Len(resultsOfChannel(res, c)) : c \in ChannelSet }
        maxCount == CHOOSE n \in counts : \A m \in counts : m <= n
    IN  IF maxCount > 0
        THEN (Len(resultsOfChannel(res, ch)) * 100) \div maxCount
        ELSE 0

\* the negative squared error of a preset
RECURSIVE presetScore(_, _, _)
presetScore(res, presetKey, k) ==
    IF k > Len(Channels) THEN 0
    ELSE LET d == normCount(res, Channels[k])
                      - PRESET_EXPECTATIONS[presetKey][Channels[k]]
         IN  presetScore(res, presetKey, k + 1) - d * d

\* the first preset in key order that no other preset outscores
bestPreset(res) ==
    LET score(k) == presetScore(res, PresetKeys[k], 1)
        best == CHOOSE k \in 1..Len(PresetKeys) :
                    /\ \A j \in 1..Len(PresetKeys) : score(j) <= score(k)
                    /\ \A j \in 1..(k - 1) : score(j) < score(k)
    IN  PresetKeys[best]

_applySuggestionFromResults(st, res) == applyGenrePreset(st, bestPreset(res))

\* analyze() has no await: the quick analysis and the callback of its
\* promise run before any other event is handled, and the button is
\* disabled and enabled again within this step
suggestPreset ==
    /\ opsLeft > 0
    /\ ~btn.suggestPresetBtn
    /\ opsLeft' = opsLeft - 1
    /\ IF state.monoSamples = NoFile /\ state.analysisResults = Null
       THEN UNCHANGED << state, tokens >>
       ELSE IF state.analysisResults = Null \/ ~hasAnyResults(state)
       THEN LET current == [state EXCEPT
                               !.currentCancelToken = Len(tokens) + 1]
                res == analyzeFile(FileOf(state.audioBuffer), ChannelSet)
            IN  /\ tokens' = Append(tokens, FALSE)
                /\ state' = _applySuggestionFromResults(
                                storeResults(current, res), res)
       ELSE /\ state' = _applySuggestionFromResults(state,
                                                    state.analysisResults)
            /\ UNCHANGED tokens
    /\ UNCHANGED << btn, jobs, call, seq, markers, history, analyzerVars >>

----------------------------------------------------------------------------
(* Marker placement and removal *)

\* a marker: its time, the tag its comments start with ("USER" for a marker
\* that is not the panel's), the placement that built it and its number in
\* that batch
Marker(t, tag, run, n) == [time |-> t, tag |-> tag, batch |-> run, n |-> n]

RECURSIVE eventsFrom(_, _)
eventsFrom(channels, k) ==
    IF k > Len(Channels) THEN << >>
    ELSE LET ch == Channels[k]
             own == IF channels[ch].enabled
                    THEN [i \in 1..Len(channels[ch].results) |->
                             [time |-> channels[ch].results[i].time,
                              type |-> ch]]
                    ELSE << >>
         IN  own \o eventsFrom(channels, k + 1)

IsSortedByTime(list) ==
    \A k \in 1..(Len(list) - 1) : list[k].time <= list[k + 1].time

\* allEvents.sort(function (a, b) { return a.time - b.time; }): stable
sortByTime(list) ==
    IF IsSortedByTime(list) THEN list
    ELSE LET rank(k) == Cardinality({ j \in 1..Len(list) :
                                        \/ list[j].time < list[k].time
                                        \/ /\ list[j].time = list[k].time
                                           /\ j <= k })
         IN  [r \in 1..Len(list) |->
                 list[CHOOSE k \in 1..Len(list) : rank(k) = r]]

\* the events of the enabled channels, sorted by time
allEventsOf(channels) == sortByTime(eventsFrom(channels, 1))

\* state.offsetFrames / (rangeInfo.fps || 24)
offsetSec(frames, fps) ==
    (frames * 1000) \div (IF fps = 0 THEN DefaultFps ELSE fps)

startSecOf(st, rangeInfo) ==
    (IF st.range = "inout" THEN rangeInfo.inPoint
     ELSE IF st.range = "playhead" THEN rangeInfo.playerPosition
     ELSE 0) + offsetSec(st.offsetFrames, rangeInfo.fps)

endSecOf(st, rangeInfo) ==
    IF st.range = "inout" THEN rangeInfo.outPoint ELSE rangeInfo.endTime

\* allEvents.filter(..)
filteredOf(allEvents, startSec, endSec) ==
    SelectSeq(allEvents,
              LAMBDA ev : ev.time >= startSec /\ ev.time <= endSec)

\* filtered.map(..)
detectedBatch(filtered, run) ==
    [k \in 1..Len(filtered) |-> Marker(filtered[k].time, "DETECT", run, k)]

subDurationOf(st) ==
    LET beatDurSec == 60000 \div st.bpm
        whole == CASE st.subdivision = 1 -> beatDurSec * st.timeSigTop
                   [] st.subdivision = 2 -> beatDurSec * 2
                   [] st.subdivision = 4 -> beatDurSec
                   [] st.subdivision = 8 -> beatDurSec \div 2
                   [] OTHER -> beatDurSec
    IN  IF st.triplet THEN (whole * 2) \div 3 ELSE whole

\* the number of iterations of while (t < endSec && batch.length < 5000)
gridCount(startSec, endSec, subDuration) ==
    IF startSec >= endSec THEN 0
    ELSE Min(GridLimit, (endSec - startSec + subDuration - 1)
                            \div subDuration)

gridBatch(st, startSec, endSec, run) ==
    [k \in 1..gridCount(startSec, endSec, subDurationOf(st)) |->
        Marker(startSec + (k - 1) * subDurationOf(st), "GRID", run, k)]

\* for (c = 0; c < batch.length; c += CHUNK_SIZE) chunks.push(batch.slice(..))
chunksOf(batch) ==
    [i \in 1..((Len(batch) + CHUNK_SIZE - 1) \div CHUNK_SIZE) |->
        SubSeq(batch, (i - 1) * CHUNK_SIZE + 1,
               Min(i * CHUNK_SIZE, Len(batch)))]

\* host: createMarkerBatch
createMarkerBatch(ms, chunk) == ms \cup { chunk[k] : k \in 1..Len(chunk) }

\* host: clearMarkersInRange with an empty name prefix
clearMarkersInRange(ms, startSec, endSec) ==
    { m \in ms : ~(m.time >= startSec /\ m.time <= endSec) }

\* host: clearMarkersByCommentPrefix
clearMarkersByCommentPrefix(ms, startSec, endSec, commentPrefix) ==
    { m \in ms : ~(/\ m.time >= startSec
                   /\ m.time <= endSec
                   /\ m.tag = commentPrefix) }

\* host: clearAllMarkers, which deletes the first marker until count > 10000
clearAllMarkers(ms) ==
    IF Cardinality(ms) <= ClearAllLimit + 1 THEN {} ELSE ms

\* csInterface.evalScript answers with the host function's reply or with
\* "EvalScript error."
Outcomes == {"reply", "evalError"}

buttonOf == [detected |-> "placeDetectedBtn", grid |-> "placeGridBtn"]

\* a promise rejected with no handler left: the run ends where it is
Abandon(rejectedCall) ==
    /\ call' = NoCall
    /\ history' = [history EXCEPT !.rejected = @ \/ rejectedCall]
    /\ UNCHANGED << state, btn, markers >>

\* processChunk(index)
processChunk(op, chunks, index, totalPlaced) ==
    IF index >= Len(chunks)
    THEN /\ call' = NoCall
         /\ btn' = [btn EXCEPT ![buttonOf[op]] = FALSE]
    ELSE /\ call' = [fn |-> "createMarkerBatch", op |-> op,
                     chunks |-> chunks, index |-> index,
                     totalPlaced |-> totalPlaced]
         /\ UNCHANGED btn

\* state.lastBatch.. = .. of placeGridMarkers
trackBatch(st, batch) ==
    [st EXCEPT !.lastBatchStartTime = batch[1].time,
               !.lastBatchEndTime = batch[Len(batch)].time,
               !.lastBatchCount = Len(batch)]

\* doPlaceBatch()
doPlaceBatch(st, filtered, run, rejectedCall) ==
    LET batch == detectedBatch(filtered, run)
    IN  /\ state' = [trackBatch(st, batch) EXCEPT
                        !.lastDetectedBatchStart = batch[1].time,
                        !.lastDetectedBatchEnd = batch[Len(batch)].time,
                        !.lastDetectedBatchCount = Len(batch)]
        /\ history' = [history EXCEPT !.lastRun = run,
                                      !.rejected = @ \/ rejectedCall]
        /\ processChunk("detected", chunksOf(batch), 0, 0)

placeDetectedMarkers ==
    /\ opsLeft > 0
    /\ call = NoCall
    /\ ~btn.placeDetectedBtn
    /\ opsLeft' = opsLeft - 1
    /\ IF Len(allEventsOf(state.channels)) = 0
       THEN UNCHANGED << btn, call, history >>
       ELSE /\ btn' = [btn EXCEPT !.placeDetectedBtn = TRUE]
            /\ call' = [fn |-> "getInOutRange", op |-> "detected",
                        allEvents |-> allEventsOf(state.channels),
                        run |-> history.runs + 1]
            /\ history' = [history EXCEPT !.runs = @ + 1]
    /\ UNCHANGED << state, tokens, jobs, seq, markers, analyzerVars >>

placeGridMarkers ==
    /\ opsLeft > 0
    /\ call = NoCall
    /\ ~btn.placeGridBtn
    /\ opsLeft' = opsLeft - 1
    /\ IF state.bpm = 0
       THEN UNCHANGED << btn, call, history >>
       ELSE /\ btn' = [btn EXCEPT !.placeGridBtn = TRUE]
            /\ call' = [fn |-> "getInOutRange", op |-> "grid",
                        allEvents |-> << >>, run |-> history.runs + 1]
            /\ history' = [history EXCEPT !.runs = @ + 1]
    /\ UNCHANGED << state, tokens, jobs, seq, markers, analyzerVars >>

\* host: getInOutRange
getInOutRange ==
    IF seq = Null THEN [error |-> TRUE]
    ELSE [error |-> FALSE, inPoint |-> seq.inPoint, outPoint |-> seq.outPoint,
          endTime |-> seq.end, playerPosition |-> seq.playerPosition,
          fps |-> seq.fps]

\* the callback of evalScript("getInOutRange()") in placeDetectedMarkers
DetectedRange(rangeInfo) ==
    LET filtered == filteredOf(call.allEvents, startSecOf(state, rangeInfo),
                               endSecOf(state, rangeInfo))
    IN  IF Len(filtered) = 0
        THEN /\ btn' = [btn EXCEPT !.placeDetectedBtn = FALSE]
             /\ call' = NoCall
             /\ UNCHANGED << state, history >>
        ELSE IF /\ state.lastDetectedBatchCount > 0
                /\ state.lastDetectedBatchStart # NoTime
        THEN /\ call' = [fn |-> "clearMarkersByCommentPrefix",
                         startSec |-> state.lastDetectedBatchStart
                                          - ClearMargin,
                         endSec |-> state.lastDetectedBatchEnd + ClearMargin,
                         filtered |-> filtered, run |-> call.run]
             /\ UNCHANGED << state, btn, history >>
        ELSE doPlaceBatch(state, filtered, call.run, FALSE)

\* the callback of evalScript("getInOutRange()") in placeGridMarkers; with
\* an empty batch, batch[0].time throws inside the callback
GridRange(rangeInfo) ==
    LET batch == gridBatch(state, startSecOf(state, rangeInfo),
                           endSecOf(state, rangeInfo), call.run)
    IN  IF Len(batch) = 0
        THEN Abandon(FALSE)
        ELSE /\ state' = trackBatch(state, batch)
             /\ history' = [history EXCEPT !.lastRun = call.run]
             /\ processChunk("grid", chunksOf(batch), 0, 0)

RangeReply ==
    /\ call.fn = "getInOutRange"
    /\ \E outcome \in Outcomes :
          IF outcome = "evalError"
          THEN Abandon(TRUE)
          ELSE IF getInOutRange.error
          THEN /\ btn' = [btn EXCEPT ![buttonOf[call.op]] = FALSE]
               /\ call' = NoCall
               /\ UNCHANGED << state, history >>
          ELSE IF call.op = "detected"
          THEN DetectedRange(getInOutRange)
          ELSE GridRange(getInOutRange)
    /\ UNCHANGED << tokens, jobs, seq, markers, opsLeft, analyzerVars >>

\* the callbacks of evalScript("clearMarkersByCommentPrefix(..)")
DedupeReply ==
    /\ call.fn = "clearMarkersByCommentPrefix"
    /\ \E outcome \in Outcomes :
          IF outcome = "evalError"
          THEN /\ markers' = markers
               /\ doPlaceBatch(state, call.filtered, call.run, TRUE)
          ELSE /\ markers' = IF seq = Null THEN markers
                             ELSE clearMarkersByCommentPrefix(
                                      markers, call.startSec, call.endSec,
                                      "DETECT")
               /\ doPlaceBatch([state EXCEPT !.lastDetectedBatchCount = 0],
                               call.filtered, call.run, FALSE)
    /\ UNCHANGED << tokens, jobs, seq, opsLeft, analyzerVars >>

\* the callback of evalScript("createMarkerBatch(..)")
ChunkReply ==
    /\ call.fn = "createMarkerBatch"
    /\ \E outcome \in Outcomes :
          IF outcome = "evalError"
          THEN Abandon(TRUE)
          ELSE LET chunk == call.chunks[call.index + 1]
                   placed == IF seq = Null THEN 0 ELSE Len(chunk)
               IN  /\ markers' = IF seq = Null THEN markers
                                 ELSE createMarkerBatch(markers, chunk)
                   /\ processChunk(call.op, call.chunks, call.index + 1,
                                   call.totalPlaced + placed)
                   /\ UNCHANGED << state, history >>
    /\ UNCHANGED << tokens, jobs, seq, opsLeft, analyzerVars >>

clearLastBatch ==
    /\ opsLeft > 0
    /\ call = NoCall
    /\ opsLeft' = opsLeft - 1
    /\ call' = IF state.lastBatchCount = 0 THEN NoCall
               ELSE [fn |-> "clearMarkersInRange",
                     startSec |-> state.lastBatchStartTime - ClearMargin,
                     endSec |-> state.lastBatchEndTime + ClearMargin]
    /\ UNCHANGED << state, btn, tokens, jobs, seq, markers, history,
                    analyzerVars >>

\* state.lastBatchCount = 0; state.lastDetectedBatchCount = 0
forgetBatches(st) ==
    [st EXCEPT !.lastBatchCount = 0, !.lastDetectedBatchCount = 0]

\* the callback of evalScript("clearMarkersInRange(..)"); without a
\* sequence the host's reply is no JSON and the callback catches the error
ClearLastReply ==
    /\ call.fn = "clearMarkersInRange"
    /\ call' = NoCall
    /\ \E outcome \in Outcomes :
          IF outcome = "evalError"
          THEN /\ history' = [history EXCEPT !.rejected = TRUE]
               /\ UNCHANGED << state, markers >>
          ELSE IF seq = Null
          THEN UNCHANGED << state, markers, history >>
          ELSE /\ markers' = clearMarkersInRange(markers, call.startSec,
                                                 call.endSec)
               /\ state' = forgetBatches(state)
               /\ UNCHANGED history
    /\ UNCHANGED << btn, tokens, jobs, seq, opsLeft, analyzerVars >>

clearAllMarkersClick ==
    /\ opsLeft > 0
    /\ call = NoCall
    /\ opsLeft' = opsLeft - 1
    /\ call' = [fn |-> "clearAllMarkers"]
    /\ UNCHANGED << state, btn, tokens, jobs, seq, markers, history,
                    analyzerVars >>

\* the callback of evalScript("clearAllMarkers()")
ClearAllReply ==
    /\ call.fn = "clearAllMarkers"
    /\ call' = NoCall
    /\ \E outcome \in Outcomes :
          IF outcome = "evalError"
          THEN /\ history' = [history EXCEPT !.rejected = TRUE]
               /\ UNCHANGED << state, markers >>
          ELSE IF seq = Null
          THEN UNCHANGED << state, markers, history >>
          ELSE /\ markers' = clearAllMarkers(markers)
               /\ state' = forgetBatches(state)
               /\ UNCHANGED history
    /\ UNCHANGED << btn, tokens, jobs, seq, opsLeft, analyzerVars >>

----------------------------------------------------------------------------
(* Specifications *)

\* the panel as loaded, with no sequence open and no operation to come
PanelIdle ==
    /\ state = InitialState
    /\ btn = InitialButtons
    /\ tokens = << >>
    /\ jobs = << >>
    /\ call = NoCall
    /\ seq = Null
    /\ markers = {}
    /\ history = InitialHistory
    /\ opsLeft = 0

\* analyze() on a new AudioAnalyzer
Init ==
    /\ PanelIdle
    /\ sampleRate = DefaultSampleRate
    /\ caller = FirstUse
    /\ audioBuffer \in Buffers
    /\ options \in OptionSets(audioBuffer)
    /\ hasCallback \in BOOLEAN
    /\ hasToken \in BOOLEAN
    /\ cancelled \in (IF hasToken THEN BOOLEAN ELSE {FALSE})
    /\ cancelledAt = IF cancelled THEN 0 ELSE NotCancelled
    /\ pc = "idle"
    /\ Fresh
    /\ signal = << >>
    /\ IdleScan
    /\ bpm = NotYet

Next ==
    \/ AnalyzeCall
    \/ MixStage
    \/ StftStage
    \/ StftProgress
    \/ BandsStage
    \/ FluxStage
    \/ \E ch \in ChannelSet : ChannelStage(ch)
    \/ BpmStage
    \/ CompleteStage

Spec == Init /\ [][Next]_vars

\* analyze() on an AudioAnalyzer that has analysed another buffer before,
\* or whose progress callback calls analyze() on it again
InitReuse ==
    /\ PanelIdle
    /\ caller \in CallerUses
    /\ sampleRate = caller.before
    /\ audioBuffer \in ReuseBuffers
    /\ options \in { OptionsWith(D, 5) :
                        D \in {ChannelSet, {"kick"}, {"hihat"}} }
    /\ hasCallback \in BOOLEAN
    /\ hasToken \in BOOLEAN
    /\ cancelled = FALSE
    /\ cancelledAt = NotCancelled
    /\ pc = "idle"
    /\ Fresh
    /\ signal = << >>
    /\ IdleScan
    /\ bpm = NotYet

SpecReuse == InitReuse /\ [][Next]_vars

----------------------------------------------------------------------------
(* The panel: specifications *)

\* an analyzer on which no analysis runs
AnalyzerIdle ==
    /\ sampleRate = DefaultSampleRate
    /\ IdleAnalyze
    /\ Fresh
    /\ IdleScan
    /\ pc = "idle"
    /\ signal = << >>
    /\ bpm = NotYet

\* file analyses, suggestions and cancellations, in any order
InitAnalysis ==
    /\ AnalyzerIdle
    /\ state = InitialState
    /\ btn = InitialButtons
    /\ tokens = << >>
    /\ jobs = << >>
    /\ call = NoCall
    /\ seq = Null
    /\ markers = {}
    /\ history = InitialHistory
    /\ opsLeft = MaxOps

NextAnalysis ==
    \/ \E file \in Files : analyzeAudioFile(file)
    \/ \E j \in JobIds : readerOnload(j)
    \/ \E j \in JobIds : decodeAudioData(j)
    \/ suggestPreset
    \/ cancelCurrentAnalysis

SpecAnalysis == InitAnalysis /\ [][NextAnalysis]_vars

\* the sequences of the host: none; a short one with in and out points
\* around part of it, around all of it, or at the same time; a long one
ShortSequence(inPoint, outPoint) ==
    [inPoint |-> inPoint, outPoint |-> outPoint, end |-> 6000,
     playerPosition |-> 1000, fps |-> 25]
LongSequence ==
    [inPoint |-> 0, outPoint |-> 3000000, end |-> 3000000,
     playerPosition |-> 0, fps |-> 25]
ShortSequences ==
    { Null, ShortSequence(2000, 4000), ShortSequence(0, 6000),
      ShortSequence(4000, 4000) }

\* the grid and range controls as the user has set them
Settings ==
    { [range |-> "inout", bpm |-> 120, subdivision |-> 4, triplet |-> FALSE],
      [range |-> "full", bpm |-> 120, subdivision |-> 1, triplet |-> FALSE],
      [range |-> "inout", bpm |-> 120, subdivision |-> 8, triplet |-> TRUE],
      [range |-> "playhead", bpm |-> 0, subdivision |-> 2,
       triplet |-> FALSE] }

withSettings(st, s) ==
    [st EXCEPT !.range = s.range, !.bpm = s.bpm,
               !.subdivision = s.subdivision, !.triplet = s.triplet]

\* one more event than a grid may have markers, 40 ms apart, on the hi-hat
ManyEvents == [k \in 1..(GridLimit + 1) |-> Event(40 * k)]
LongFile ==
    [id |-> 4, decodes |-> TRUE,
     events |-> [NoEvents EXCEPT !.hihat = ManyEvents], bpm |-> 120]

\* the panel after the analysis of a file
analysed(st, file, detect) ==
    storeResults([st EXCEPT !.audioBuffer = file.id,
                            !.monoSamples = file.id],
                 analyzeFile(file, detect))

UserMarkers == { {}, {Marker(3000, "USER", 0, 0)} }

PlaceIdle ==
    /\ AnalyzerIdle
    /\ btn = InitialButtons
    /\ tokens = << >>
    /\ jobs = << >>
    /\ call = NoCall
    /\ history = InitialHistory

\* placements and removals on a short sequence
InitPlaceShort ==
    /\ PlaceIdle
    /\ seq \in ShortSequences
    /\ \E s \in Settings, file \in {SilentFile, MusicFile} :
          state = analysed(withSettings(InitialState, s), file,
                           {"kick", "snare", "bass"})
    /\ markers \in UserMarkers
    /\ opsLeft = MaxOps

\* the same on a long sequence, after the analysis of a long file and with
\* the hi-hat channel enabled
InitPlaceLong ==
    /\ PlaceIdle
    /\ seq = LongSequence
    /\ state = applyGenrePreset(
                   analysed(withSettings(InitialState,
                                         [range |-> "full", bpm |-> 120,
                                          subdivision |-> 4,
                                          triplet |-> FALSE]),
                            LongFile, ChannelSet),
                   "rock")
    /\ markers = {}
    /\ opsLeft = LongOps

InitPlace == InitPlaceShort \/ InitPlaceLong

NextPlace ==
    \/ placeDetectedMarkers
    \/ placeGridMarkers
    \/ RangeReply
    \/ DedupeReply
    \/ ChunkReply
    \/ clearLastBatch
    \/ ClearLastReply
    \/ clearAllMarkersClick
    \/ ClearAllReply

SpecPlace == InitPlace /\ [][NextPlace]_vars

\* csInterface.evalScript calls its callback for every call
HostReplies ==
    RangeReply \/ DedupeReply \/ ChunkReply \/ ClearLastReply
        \/ ClearAllReply

\* placements on a short sequence, with every evalScript call answered
SpecPlaceFair ==
    InitPlaceShort /\ [][NextPlace]_vars /\ WF_vars(HostReplies)

\* _detectOnsets on test signals
InitOnsets ==
    /\ PanelIdle
    /\ sampleRate \in OnsetRates
    /\ signal \in SignalsOfLength(MaxLen) \cup ShortSignals
    /\ detOpts \in OnsetOptions
    /\ scanI = detOpts.adaptiveWindow
    /\ onsets = << >>
    /\ lastStep = "none"
    /\ pc = "scan"
    /\ IdleAnalyze
    /\ Fresh
    /\ bpm = NotYet

NextOnsets == ScanStep \/ ScanReturn

SpecOnsets == InitOnsets /\ [][NextOnsets]_vars

\* _estimateBPM on test signals
InitBPM ==
    /\ PanelIdle
    /\ sampleRate \in BpmRates
    /\ signal \in UNION { SignalsOfLength(n) : n \in 0..MaxBpmLen }
                  \cup {SilentSeries}
    /\ bpm = NotYet
    /\ pc = "estimate"
    /\ IdleAnalyze
    /\ Fresh
    /\ IdleScan

NextBPM == EstimateBPM

SpecBPM == InitBPM /\ [][NextBPM]_vars

----------------------------------------------------------------------------
(* Properties *)

Returned == pc = "returned"
FlagSet == hasToken /\ cancelled

\* the sample buffer is all zero
SilentBuffer ==
    /\ audioBuffer.left.amp = 0
    /\ audioBuffer.numberOfChannels > 1 => audioBuffer.right.amp = 0

EnabledChannels == { ch \in ChannelSet : options.detect[ch] }

\* C1: a run whose cancel flag was set before the call or inside one of its
\* progress callbacks returns null, never a result object.
C1_CancelledRunReturnsNull ==
    (Returned /\ FlagSet) => ret.kind = "null"

\* the frames _computeSTFT has to produce for a signal of n samples
FrameCount(n) == IF n >= fftSize THEN ((n - fftSize) \div hopSize) + 1 ELSE 0

\* C2: _computeSTFT returns null or all the frames of the signal (no frame
\* when numFrames is not positive), never a prefix of them; analyze()
\* returns null or a result with an event list for each enabled channel
\* and with bpm.
C2_NoPartialResult ==
    /\ spectrogram.kind \in {"pending", "null", "frames"}
    /\ spectrogram.kind = "frames" =>
          /\ Len(spectrogram.frames) = Max(0, numFramesOf(mono))
          /\ \A k \in 1..Len(spectrogram.frames) :
                spectrogram.frames[k].start = (k - 1) * hopSize
    /\ ret.kind \in {"pending", "null", "result"}
    /\ ret.kind = "result" =>
          /\ EnabledChannels \subseteq DOMAIN ret.events
          /\ ret.hasBpm

\* C2 witness: _computeSTFT gave up after it had built some frames, and
\* returned null
C2_Witness ==
    /\ spectrogram.kind = "null"
    /\ Len(stftLocal) > 0
    /\ ret.kind = "null"

GapOf == minGapFramesOf(detOpts.minInterval, sampleRate)

\* C3: at every step of the scan, no two consecutive onsets are closer
\* than minGapFrames.
C3_MinGapBetweenOnsets ==
    pc \in {"scan", "scanned"} =>
        \A k \in 2..Len(onsets) : onsets[k] - onsets[k - 1] >= GapOf

\* C3 witness: a replace-in-place behind an earlier onset, with a gap to
\* keep
C3_Witness ==
    /\ pc = "scan"
    /\ lastStep = "replace"
    /\ Len(onsets) >= 2
    /\ GapOf >= 3

\* the candidate frames of the signal being scanned
CandidateFrames ==
    { i \in detOpts.adaptiveWindow ..
              (Len(signal) - detOpts.adaptiveWindow - 1) :
        IsCandidate(OdfOf(signal), i, detOpts.adaptiveWindow,
                    detOpts.sensitivity) }

\* the candidate with the larger ODF value, the earlier one on a tie
StrongerOf(p, q) ==
    IF OdfOf(signal)[q + 1] > OdfOf(signal)[p + 1] THEN q ELSE p

\* an iteration at a candidate frame closer than minGapFrames to the last
\* onset keeps the length of the list, overwrites the last onset when the
\* candidate's ODF value is strictly greater, and changes nothing otherwise
C4_StepWithinGap ==
    ( /\ pc = "scan"
      /\ scanI' = scanI + 1
      /\ scanI \in CandidateFrames
      /\ Len(onsets) > 0
      /\ scanI - onsets[Len(onsets)] < GapOf )
    => /\ Len(onsets') = Len(onsets)
       /\ onsets' = IF OdfOf(signal)[scanI + 1]
                         > OdfOf(signal)[onsets[Len(onsets)] + 1]
                    THEN [onsets EXCEPT ![Len(onsets)] = scanI]
                    ELSE onsets

\* two candidates 0.03 s (2 or 3 frames) apart and no other, scanned with
\* minInterval = 0.08, leave exactly one onset, at the stronger of the two
C4_TwoSpikes ==
    ( /\ pc = "scanned"
      /\ detOpts.minInterval = 80
      /\ Cardinality(CandidateFrames) = 2 )
    => \A p, q \in CandidateFrames :
          (q - p \in {2, 3}) => onsets = << StrongerOf(p, q) >>

\* C4: the minimum-gap policy of _detectOnsets: a candidate within the gap
\* never lengthens the list, replaces the last onset if strictly stronger
\* and is dropped otherwise; two spikes 0.03 s apart with minInterval 0.08
\* give one onset, at the stronger spike.
C4_MinGapPolicy == [][C4_StepWithinGap]_vars /\ []C4_TwoSpikes

\* C4 witness: of two spikes 3 frames apart the later, stronger one is the
\* onset left
C4_Witness ==
    /\ pc = "scanned"
    /\ detOpts.minInterval = 80
    /\ Cardinality(CandidateFrames) = 2
    /\ \E p \in CandidateFrames : p + 3 \in CandidateFrames
                                  /\ onsets = << p + 3 >>

\* C5: the value _estimateBPM returns is in [60, 200), 200 excluded.
C5_BpmBelow200 ==
    pc = "estimated" => (bpm >= 10 * FoldLow /\ bpm < 10 * FoldHigh)

\* C5 as amended: the value _estimateBPM returns is in [60, 200], 200
\* included.
C5_BpmInClosedRange ==
    pc = "estimated" => (bpm >= 10 * FoldLow /\ bpm <= 10 * FoldHigh)

\* C5 witness: 200 is returned
C5_Witness == pc = "estimated" /\ bpm = 10 * FoldHigh

\* C6: for an all-zero buffer every enabled channel of the result has an
\* empty event list, at every sensitivity.
C6_SilenceHasNoEvents ==
    (ret.kind = "result" /\ SilentBuffer) =>
        /\ EnabledChannels \subseteq DOMAIN ret.events
        /\ \A ch \in DOMAIN ret.events : ret.events[ch] = << >>

\* C6 witness: two seconds of silence analysed on all six channels at the
\* lowest threshold
C6_Witness ==
    /\ ret.kind = "result"
    /\ SilentBuffer
    /\ audioBuffer.length = TwoSeconds
    /\ DOMAIN ret.events = ChannelSet
    /\ options.sensitivity["kick"] = 10

ZeroOdf == \A j \in 1..Len(signal) : OdfOf(signal)[j] = 0

\* on an all-zero ODF the lag selected is minLag and the value returned is
\* the BPM of that lag
SilenceSelectsMinLag ==
    (pc = "estimated" /\ ZeroOdf) =>
        /\ bestLagOf(signal, sampleRate) = (60 * sampleRate)
                                             \div (200 * hopSize)
        /\ bpm = NormalizeBpm((60 * sampleRate) \div (200 * hopSize),
                              sampleRate)

\* C7: on an all-zero ODF _estimateBPM selects minLag and returns its BPM,
\* which at 44100 Hz is about 181.4.
C7_SilenceGives181 ==
    /\ SilenceSelectsMinLag
    /\ (pc = "estimated" /\ ZeroOdf /\ sampleRate = 44100) =>
          Abs(bpm - 1814) <= 5

\* C7 as amended: on an all-zero ODF _estimateBPM selects minLag and
\* returns its BPM, which at 44100 Hz is 103.4 (lag 25, 206.7 halved once).
C7_SilenceGives103 ==
    /\ SilenceSelectsMinLag
    /\ (pc = "estimated" /\ ZeroOdf /\ sampleRate = 44100) => bpm = 1034

\* C7 witness: the silent series of two seconds at 44100 Hz, where the lag
\* loop runs
C7_Witness ==
    /\ pc = "estimated"
    /\ ZeroOdf
    /\ sampleRate = 44100
    /\ Len(signal) > minLagOf(sampleRate)

\* C8: a buffer shorter than one FFT frame, not cancelled, gives a result
\* (no fault, not null) from a spectrogram of zero frames: every enabled
\* channel has an empty event list and bpm is the value of lag = minLag.
C8_ShortBuffer ==
    (audioBuffer.length < fftSize /\ ~FlagSet) =>
        /\ pc # "diverged"
        /\ Returned =>
              /\ ret.kind = "result"
              /\ spectrogram.kind = "frames"
              /\ spectrogram.frames = << >>
              /\ \A ch \in EnabledChannels :
                    ch \in DOMAIN ret.events /\ ret.events[ch] = << >>
              /\ ret.hasBpm
              /\ ret.bpm = NormalizeBpm(minLagOf(audioBuffer.sampleRate),
                                        audioBuffer.sampleRate)

\* C8 witness: a buffer one sample short of a frame, not silent, analysed
\* on every channel
C8_Witness ==
    /\ Returned
    /\ audioBuffer.length = fftSize - 1
    /\ ~SilentBuffer
    /\ ret.kind = "result"
    /\ DOMAIN ret.events = ChannelSet

\* C9: an uncancelled _computeSTFT returns floor((N - 2048) / 512) + 1
\* frames for N >= 2048 and none for N < 2048, each of 1024 magnitudes, in
\* temporal order: frame k starts at sample k * 512.
C9_FrameCount ==
    spectrogram.kind = "frames" =>
        /\ Len(spectrogram.frames) = FrameCount(audioBuffer.length)
        /\ \A k \in 1..Len(spectrogram.frames) :
              /\ spectrogram.frames[k].bins = 1024
              /\ spectrogram.frames[k].start = (k - 1) * 512

\* C9 witness: a buffer whose length is not a whole number of hops past
\* the first frame
C9_Witness ==
    /\ spectrogram.kind = "frames"
    /\ audioBuffer.length = TwoSeconds
    /\ Len(spectrogram.frames) = 169

\* round(freq * fftSize / sampleRate), clamped to [0, fftSize/2 - 1]
ClampedBin(freq, sr) == Max(0, Min(RoundDiv(freq * fftSize, sr), halfFFT - 1))

\* C10: every bin index used to slice a frame is the rounded bin of its
\* frequency clamped to [0, fftSize/2 - 1]: both bins of each band, and
\* the bounds of the centroid-flux and vocal-flux ranges.
C10_BinsAreClamped ==
    bandEnergies # Pending =>
        /\ \A k \in 1..Len(bands) :
              /\ BandLowBin(k, sampleRate)
                     = ClampedBin(bands[k].low, sampleRate)
              /\ BandHighBin(k, sampleRate)
                     = ClampedBin(bands[k].high, sampleRate)
        /\ centroidLowBin(sampleRate) = ClampedBin(300, sampleRate)
        /\ Min(centroidHighBin(sampleRate), halfFFT - 1)
               = ClampedBin(6000, sampleRate)
        /\ vocalLowBin(sampleRate) = ClampedBin(300, sampleRate)
        /\ Min(vocalHighBin(sampleRate), halfFFT - 1)
               = ClampedBin(4000, sampleRate)

\* C11: in table order the bin ranges of the 6 bands increase without
\* overlap: each band's low bin is >= the previous band's high bin and
\* <= its own high bin.
C11_BandBinsIncrease ==
    bandEnergies # Pending =>
        /\ \A k \in 2..Len(bands) :
              BandLowBin(k, sampleRate) >= BandHighBin(k - 1, sampleRate)
        /\ \A k \in 1..Len(bands) :
              BandLowBin(k, sampleRate) <= BandHighBin(k, sampleRate)

\* the spectrogram of an uninterrupted _computeSTFT
FramesOf(samples) == RunFrames(<< >>, 0, samples, FALSE, FALSE).local

\* the same buffer with the left channel alone
AsMono(buf) == [buf EXCEPT !.numberOfChannels = 1]

\* C12: the mono signal has the length of the buffer, holds the input
\* itself (one channel) or (left + right) / 2 (two channels); for a stereo
\* buffer with left = right the mono signal and every band energy are
\* those of the mono buffer with the same content.
C12_MonoMix ==
    /\ mono # Pending =>
          /\ mono.length = audioBuffer.length
          /\ mono.amp = IF audioBuffer.numberOfChannels = 1
                        THEN audioBuffer.left.amp
                        ELSE (audioBuffer.left.amp + audioBuffer.right.amp)
                                 \div 2
          /\ audioBuffer.left = audioBuffer.right =>
                mono = [length |-> audioBuffer.length,
                        pattern |-> audioBuffer.left.pattern,
                        amp |-> audioBuffer.left.amp]
    /\ (pc = "flux" /\ audioBuffer.left = audioBuffer.right) =>
          bandEnergies = extractBandEnergies(
                             FramesOf(mixToMono(AsMono(audioBuffer))),
                             audioBuffer.sampleRate)

\* C12 witness: band energies of a stereo buffer of clicks, some of them
\* not zero
C12_Witness ==
    /\ pc = "flux"
    /\ audioBuffer.numberOfChannels = 2
    /\ audioBuffer.left = audioBuffer.right
    /\ audioBuffer.left.amp > 0
    /\ \E i \in 1..Len(bandEnergies["subBass"]) :
          bandEnergies["subBass"][i] > 0

\* the bpm of a buffer, computed from the buffer alone
BpmOfBuffer(buf) ==
    estimateBPM(
        allOnsetEnergyOf(
            extractBandEnergies(FramesOf(mixToMono(buf)), buf.sampleRate)),
        buf.sampleRate)

\* C13: in a result a channel key is present iff the channel's detect flag
\* is enabled, and bpm is present with a value that depends on the buffer
\* only, not on the detect flags or the sensitivity and minInterval
\* options.
C13_KeysAndBpm ==
    ret.kind = "result" =>
        /\ DOMAIN ret.events = EnabledChannels
        /\ ret.hasBpm
        /\ ret.bpm = BpmOfBuffer(audioBuffer)

\* C13 witness: a result of clicks with the hi-hat channel alone
C13_Witness ==
    /\ ret.kind = "result"
    /\ EnabledChannels = {"hihat"}
    /\ audioBuffer.length = MediumLength
    /\ ~SilentBuffer

\* the series s has every value in [0, 1]
InUnitRange(s) == \A j \in 1..Len(s) : 0 <= s[j] /\ s[j] <= Scale

\* C14: for each of the six channels the signal handed to _detectOnsets
\* is max-normalised: every value lies in [0, 1].
C14_DetectionSignalsNormalised ==
    pc \in ChannelSet \cup {"bpm", "complete", "returned"} =>
        InUnitRange(signal)

\* the band mixtures analyze() asks _combineBands for
Mixtures ==
    { << <<"subBass", "bass">>, <<14, 6>> >>,
      << <<"lowMid", "highMid">>, <<8, 12>> >>,
      << <<"presence", "brilliance">>, <<10, 10>> >>,
      << <<"subBass", "bass">>, <<6, 14>> >>,
      << <<"lowMid", "highMid">>, <<10, 10>> >>,
      << <<"subBass", "bass", "lowMid", "highMid">>, <<6, 4, 5, 5>> >> }

AllZero(s) == \A j \in 1..Len(s) : s[j] = 0

\* a flux is divided by a non-zero maximum, by 1 when the maximum is 0
FluxDivisorDefined(raw) ==
    /\ MaxOrOne(raw) # 0
    /\ (Len(raw) > 0 /\ AllZero(raw)) =>
          (MaxOrOne(raw) = 1 /\ NormalizeFlux(raw) = raw)

\* _combineBands leaves an all-zero mixture as it is and scales any other
\* to a maximum of exactly 1
MixtureDefined(data, m) ==
    IF AllZero(weightedSum(data, m[1], m[2]))
    THEN combineBands(data, m[1], m[2]) = weightedSum(data, m[1], m[2])
    ELSE MaxSeq(combineBands(data, m[1], m[2]), 0 - 1) = Scale

\* C15: a normalisation with a zero maximum or divisor short-circuits:
\* _combineBands leaves an all-zero series all-zero and otherwise scales
\* the maximum to 1, the centroid and vocal flux divide by 1 when the
\* maximum flux is 0, broadness and centroid are 0 for a frame without
\* energy; nothing divides by zero, an empty spectrogram included.
C15_ZeroMaximumShortCircuits ==
    pc = "flux" =>
        /\ FluxDivisorDefined(centroidFluxRaw(spectrogram.frames, sampleRate))
        /\ FluxDivisorDefined(vocalFluxRaw(spectrogram.frames, sampleRate))
        /\ \A i \in 1..Len(spectrogram.frames) :
              DOMAIN spectrogram.frames[i].mags = {} =>
                  /\ BroadnessAt(spectrogram.frames[i]) = 0
                  /\ CentroidAt(spectrogram.frames[i],
                                centroidLowBin(sampleRate),
                                centroidHighBin(sampleRate)) = 0
        /\ \A m \in Mixtures :
              /\ MixtureDefined(bandEnergies, m)
              /\ MixtureDefined(computeBandFlux(spectrogram.frames,
                                                sampleRate), m)

\* C15 witness: the frames of a silent buffer, where every maximum is 0
C15_Witness ==
    /\ pc = "flux"
    /\ SilentBuffer
    /\ Len(spectrogram.frames) = 169

\* the channel whose stage ran last
LastChannel ==
    Channels[CHOOSE k \in 1..Len(Channels) :
                /\ Channels[k] \in DOMAIN results.events
                /\ \A j \in (k + 1)..Len(Channels) :
                      Channels[j] \notin DOMAIN results.events]

StageHasRun == results # Pending /\ DOMAIN results.events # {}

\* a channel stage has just returned its events
AfterStage == pc \in ChannelSet \cup {"bpm"} /\ StageHasRun

FramesOfEvents(ev) == [k \in 1..Len(ev) |-> ev[k].frame]

BassFluxMixture == combineBands(bandFlux, <<"subBass", "bass">>, <<6, 14>>)
BassEnergyMixture ==
    combineBands(bandEnergies, <<"subBass", "bass">>, <<6, 14>>)

\* C16: the bass onsets are those of the flux mixture while each bass
\* event's strength is the energy mixture at its frame; for every other
\* channel the strength is the value of the signal given to the detector.
C16_BassStrengthFromEnergy ==
    AfterStage =>
        /\ FramesOfEvents(results.events[LastChannel]) = onsets
        /\ onsets = detectOnsets(signal, detOpts, sampleRate)
        /\ LastChannel = "bass" => signal = BassFluxMixture
        /\ \A k \in 1..Len(onsets) :
              results.events[LastChannel][k].strength =
                  IF LastChannel = "bass"
                  THEN BassEnergyMixture[onsets[k] + 1]
                  ELSE signal[onsets[k] + 1]

\* C16 witness: a bass event whose strength is not the flux at its frame
C16_Witness ==
    /\ AfterStage
    /\ LastChannel = "bass"
    /\ \E k \in 1..Len(onsets) :
          /\ results.events["bass"][k].strength # signal[onsets[k] + 1]
          /\ results.events["bass"][k].strength
                 = BassEnergyMixture[onsets[k] + 1]

\* C19: every event list of a result is in strictly ascending frame
\* order, each time is frame * hop / sampleRate, so the times ascend
\* strictly too, and the i-th event is the i-th onset of _detectOnsets.
C19_EventsAscending ==
    /\ StageHasRun => FramesOfEvents(results.events[LastChannel]) = onsets
    /\ ret.kind = "result" =>
          \A ch \in DOMAIN ret.events :
              /\ \A k \in 1..Len(ret.events[ch]) :
                    ret.events[ch][k].time =
                        (ret.events[ch][k].frame * hopSize * 1000)
                            \div audioBuffer.sampleRate
              /\ \A k \in 2..Len(ret.events[ch]) :
                    /\ ret.events[ch][k].frame > ret.events[ch][k - 1].frame
                    /\ ret.events[ch][k].time > ret.events[ch][k - 1].time

\* C19 witness: a result at 48000 Hz with several hi-hat events
C19_Witness ==
    /\ ret.kind = "result"
    /\ audioBuffer.sampleRate = 48000
    /\ "hihat" \in DOMAIN ret.events
    /\ Len(ret.events["hihat"]) >= 3

\* a step of the frame loop in whose progress callback the flag is set
\* transforms at most 200 further frames and ends the run with null,
\* before any band is extracted
C17_StepAfterFlag ==
    (pc = "stftProgress" /\ ~cancelled /\ cancelled') =>
        /\ Len(stftLocal') - Len(stftLocal) <= CancelEvery
        /\ pc' = "returned"
        /\ ret' = Null
        /\ bandEnergies' = Pending

\* C17: when the flag becomes true while _computeSTFT is at frame k, at
\* most 200 further frames are transformed and the run ends with null
\* instead of going on to the band extraction.
C17_CancelLatency == [][C17_StepAfterFlag]_vars

\* C17 witness: the flag set at frame 500 of 751, the loop left at frame
\* 600
C17_Witness ==
    /\ pc = "returned"
    /\ ret = Null
    /\ spectrogram = Null
    /\ stftFrame = 600
    /\ Len(stftLocal) = 600
    /\ cancelled

\* the percent values reported so far are integers of 0..100 in
\* non-decreasing order, and 100 is followed by the return of a result
ProgressInOrder ==
    /\ \A k \in 1..Len(progress) : progress[k] \in 0..100
    /\ \A k \in 2..Len(progress) : progress[k - 1] <= progress[k]
    /\ (\E k \in 1..Len(progress) : progress[k] = 100) =>
          (pc = "returned" /\ ret.kind = "result")

\* a value reported from inside the frame loop is in [10, 50] and comes
\* at a frame that is a multiple of 500
StftProgressStep ==
    (pc = "stftProgress" /\ hasCallback) =>
        /\ stftFrame % 500 = 0
        /\ progress' = Append(progress, progress'[Len(progress')])
        /\ progress'[Len(progress')] \in 10..50

\* C18: in a run the percent values given to the progress callback are
\* integers in [0, 100] in non-decreasing order, those from inside
\* _computeSTFT are in [10, 50], and 100 is reported only in a run that
\* returns a result.
C18_ProgressValues == []ProgressInOrder /\ [][StftProgressStep]_vars

\* C18 witness: a complete run over 751 frames, with a report at frame 500
C18_Witness ==
    /\ pc = "returned"
    /\ ret.kind = "result"
    /\ numFramesOf(mono) = 751
    /\ \E k \in 1..Len(progress) : progress[k] = 100
    /\ \E k \in 1..Len(progress) : progress[k] = stftPct(500, 751)

\* the lags _estimateBPM has to search
LagsToSearch ==
    { lag \in ((60 * sampleRate) \div (200 * hopSize)) ..
               ((60 * sampleRate) \div (50 * hopSize)) : lag < Len(signal) }

\* the sum of ODF[i] * ODF[i + lag] over the overlap
Overlap(lag) ==
    SumRange([i \in 1..Len(signal) |->
                 IF i + lag <= Len(signal)
                 THEN OdfOf(signal)[i] * OdfOf(signal)[i + lag]
                 ELSE 0],
             1, Len(signal))

\* the score of lag a is at least the score of lag b
ScoresAtLeast(a, b) ==
    Overlap(a) * (Len(signal) - b) >= Overlap(b) * (Len(signal) - a)

\* C20: _estimateBPM searches the lags minLag..maxLag below the ODF
\* length, scores each by its overlap sum over the overlap count, which is
\* never zero, and selects the smallest lag of maximum score.
C20_LagSearch ==
    pc = "estimated" =>
        /\ lastLagOf(Len(signal), sampleRate) >= minLagOf(sampleRate) =>
              LagsToSearch = minLagOf(sampleRate) ..
                                 lastLagOf(Len(signal), sampleRate)
        /\ lastLagOf(Len(signal), sampleRate) < minLagOf(sampleRate) =>
              LagsToSearch = {}
        /\ \A lag \in LagsToSearch :
              /\ Len(signal) - lag > 0
              /\ CorrSum(OdfOf(signal), lag) = Overlap(lag)
        /\ LagsToSearch # {} =>
              /\ bestLagOf(signal, sampleRate) \in LagsToSearch
              /\ \A lag \in LagsToSearch :
                    /\ ScoresAtLeast(bestLagOf(signal, sampleRate), lag)
                    /\ lag < bestLagOf(signal, sampleRate) =>
                          ~ScoresAtLeast(lag, bestLagOf(signal, sampleRate))
        /\ bpm = NormalizeBpm(bestLagOf(signal, sampleRate), sampleRate)

\* C20 witness: a lag above minLag wins, with a score above zero, among
\* four lags
C20_Witness ==
    /\ pc = "estimated"
    /\ Cardinality(LagsToSearch) = 4
    /\ bestLagOf(signal, sampleRate) > minLagOf(sampleRate)
    /\ Overlap(bestLagOf(signal, sampleRate)) > 0

\* ODF[i] of the signal being scanned, frames counted from 0: ODF[0] = 0
\* and ODF[i] = max(0, signal[i] - signal[i - 1])
Odf(i) == IF i = 0 THEN 0 ELSE Max(0, signal[i + 1] - signal[i])

\* the sum of ODF[a .. b]
RECURSIVE OdfSum(_, _)
OdfSum(a, b) == IF a > b THEN 0 ELSE Odf(b) + OdfSum(a, b - 1)

\* ODF[i] > mean(ODF[i-w .. i+w]) * (1 + (1 - sensitivity) * 3) + 0.001,
\* both sides times 10000 * (2w + 1)
OverThreshold(i) ==
    Odf(i) * 10000 * (2 * detOpts.adaptiveWindow + 1)
        > OdfSum(i - detOpts.adaptiveWindow, i + detOpts.adaptiveWindow)
              * (10 + (10 - detOpts.sensitivity) * 3) * 1000
          + 10 * Scale * (2 * detOpts.adaptiveWindow + 1)

\* the frames that are candidates by the rule of the claim
PeakFrames ==
    { i \in 0..(Len(signal) - 1) :
        /\ detOpts.adaptiveWindow <= i
        /\ i < Len(signal) - detOpts.adaptiveWindow
        /\ OverThreshold(i)
        /\ Odf(i) >= Odf(i - 1)
        /\ Odf(i) >= Odf(i + 1) }

\* C25: _detectOnsets looks at the frames adaptiveWindow <= i < length -
\* adaptiveWindow only; such a frame is a candidate exactly when ODF[i] is
\* above mean * multiplier + 0.001 and not below its two neighbours; no
\* onset lies within adaptiveWindow frames of an edge and a signal shorter
\* than 2 * adaptiveWindow + 1 has no onset.
C25_CandidateRule ==
    pc \in {"scan", "scanned"} =>
        /\ \A k \in 1..Len(onsets) :
              /\ onsets[k] \in PeakFrames
              /\ onsets[k] >= detOpts.adaptiveWindow
              /\ onsets[k] <= Len(signal) - 1 - detOpts.adaptiveWindow
        /\ (pc = "scan" /\ scanI > detOpts.adaptiveWindow) =>
              ((lastStep = "skip") <=> (scanI - 1 \notin PeakFrames))
        /\ pc = "scanned" =>
              /\ (onsets = << >>) <=> (PeakFrames = {})
              /\ Len(signal) < 2 * detOpts.adaptiveWindow + 1 =>
                    onsets = << >>

\* C25 witness: a scan that found an onset and passed over a frame above
\* the threshold that is below its right neighbour
C25_Witness ==
    /\ pc = "scanned"
    /\ Len(onsets) >= 1
    /\ \E i \in detOpts.adaptiveWindow ..
                (Len(signal) - 1 - detOpts.adaptiveWindow) :
          OverThreshold(i) /\ Odf(i) >= Odf(i - 1) /\ Odf(i) < Odf(i + 1)

\* C28: _estimateBPM returns for every signal and every positive sample
\* rate: the selected lag is at least 1, and the value comes out of at
\* most one halving or one doubling.
C28_EstimateTerminates ==
    /\ pc # "diverged"
    /\ pc = "estimated" =>
          /\ bestLagOf(signal, sampleRate) >= 1
          /\ bpm >= 0
          /\ 60 * sampleRate <= 2 * FoldHigh
                                  * bestLagOf(signal, sampleRate) * hopSize
          /\ 2 * 60 * sampleRate >= FoldLow
                                      * bestLagOf(signal, sampleRate) * hopSize

\* C29: for each of the 6 bands and every sample rate the bin count
\* highBin - lowBin + 1 that divides the band energy is at least 1, so
\* every band energy is a defined, non-negative number.
C29_BinCountPositive ==
    bandEnergies # Pending =>
        /\ \A k \in 1..Len(bands) :
              BandHighBin(k, sampleRate) - BandLowBin(k, sampleRate) + 1 >= 1
        /\ \A n \in BandNames :
              \A i \in 1..Len(bandEnergies[n]) :
                  bandEnergies[n][i] # NaN /\ bandEnergies[n][i] >= 0

----------------------------------------------------------------------------
(* Re-entrant and repeated use of one instance *)

\* the events of channel ch that analyze() computes from a buffer and its
\* options alone, at the buffer's own sample rate
OwnEvents(buf, opts, ch) ==
    LET sr == buf.sampleRate
        frames == FramesOf(mixToMono(buf))
        energies == extractBandEnergies(frames, sr)
        flux == computeBandFlux(frames, sr)
        sig == detectionSignalOf(ch, frames, energies, flux, sr)
        o == [sensitivity |-> opts.sensitivity[ch],
              minInterval |-> opts.minInterval[ch],
              adaptiveWindow |-> adaptiveWindowOf[ch]]
    IN  eventsOf(ch, detectOnsets(sig, o, sr),
                 IF ch = "bass"
                 THEN strengthSignalOf(ch, frames, energies, flux, sr)
                 ELSE sig,
                 sr)

\* the returned result is the one of the run's own buffer and options
ResultIsOwn ==
    /\ DOMAIN ret.events = EnabledChannels
    /\ \A ch \in EnabledChannels :
          ret.events[ch] = OwnEvents(audioBuffer, options, ch)
    /\ ret.hasBpm
    /\ ret.bpm = BpmOfBuffer(audioBuffer)

\* the progress callback has called analyze() on the same instance with a
\* buffer of another sample rate
Reentered ==
    /\ hasCallback
    /\ caller.at \in { progress[k] : k \in 1..Len(progress) }
    /\ caller.rate # audioBuffer.sampleRate

\* C21: an analyze() started from inside the earlier run's progress callback
\* on the same instance does not change the earlier run's result: the
\* earlier run's events and bpm are those of its own buffer at its own
\* sample rate, even when the new buffer has a different one
C21_ReentrantRunKeepsResult ==
    (Returned /\ ret.kind = "result" /\ Reentered) => ResultIsOwn

\* C22: without cancellation and without a re-entrant call, the result of
\* analyze() is a function of the buffer and the options only, whatever
\* sample rate the instance's earlier analysis left behind; so two runs on
\* the same input return the same result
C22_ResultDependsOnInputOnly ==
    (Returned /\ ret.kind = "result" /\ caller.at = 0) => ResultIsOwn

C22_Witness ==
    /\ Returned
    /\ ret.kind = "result"
    /\ caller.at = 0
    /\ caller.before # audioBuffer.sampleRate
    /\ \E ch \in EnabledChannels : Len(ret.events[ch]) > 0


----------------------------------------------------------------------------
(* The panel: analyses in flight *)

InFlight(j) == jobs[j].stage \in {"reading", "decoding"}

\* C27: every file analysis in flight whose token is not cancelled is the
\* one state.currentCancelToken refers to, and no analysis stores its
\* results when its token is not the current one
C27_CurrentTokenOwnsAnalysis ==
    \A j \in 1..Len(jobs) :
        /\ (InFlight(j) /\ ~tokens[jobs[j].cancelToken]) =>
              state.currentCancelToken = jobs[j].cancelToken
        /\ jobs[j].stage = "stored" => jobs[j].current

----------------------------------------------------------------------------
(* The panel: marker batches *)

RECURSIVE batchLength(_, _)
batchLength(chunks, i) ==
    IF i > Len(chunks) THEN 0
    ELSE Len(chunks[i]) + batchLength(chunks, i + 1)

\* chunk i holds the markers number (i - 1) * 200 + 1, .. of the batch
InBatchOrder(chunks) ==
    \A i \in 1..Len(chunks) :
        \A k \in 1..Len(chunks[i]) :
            chunks[i][k].n = (i - 1) * CHUNK_SIZE + k

\* C23: a batch that placeGridMarkers or placeDetectedMarkers sends has at
\* most 5000 markers, and each of its chunks at most 200, taken from the
\* batch in order
C23_BatchAndChunkLimits ==
    call.fn = "createMarkerBatch" =>
        /\ batchLength(call.chunks, 1) <= GridLimit
        /\ \A i \in 1..Len(call.chunks) : Len(call.chunks[i]) <= CHUNK_SIZE
        /\ InBatchOrder(call.chunks)

\* the undo has removed markers: its callback has reset the batch count
UndoDone ==
    /\ call.fn = "clearMarkersInRange"
    /\ state.lastBatchCount > 0
    /\ state'.lastBatchCount = 0

\* C24: an undo removes the markers of the most recent placement and no
\* other marker, and an undo with no batch left removes nothing
C24_UndoRemovesLastBatchOnly ==
    [][/\ UndoDone =>
             markers' = { m \in markers : m.batch # history.lastRun }
       /\ (clearLastBatch /\ state.lastBatchCount = 0) =>
             (call' = NoCall /\ markers' = markers)]_vars

\* a run of placeDetectedMarkers completes with no evalScript call rejected
DetectedRunCompletes ==
    /\ call.fn = "createMarkerBatch"
    /\ call.op = "detected"
    /\ call' = NoCall
    /\ ~btn'.placeDetectedBtn
    /\ ~history'.rejected

\* C26: when a run of placeDetectedMarkers completes, every [DETECT] marker
\* of the sequence is one of the batch it has placed
C26_NoEarlierDetectedMarkers ==
    [][DetectedRunCompletes =>
          \A m \in markers' :
              m.tag = "DETECT" => m.batch = history.lastRun]_vars

\* C30: a placement that disables its button enables it again
C30_ButtonsEnabledAgain ==
    /\ btn.placeGridBtn ~> ~btn.placeGridBtn
    /\ btn.placeDetectedBtn ~> ~btn.placeDetectedBtn

====
